---- MODULE Spec2Model ----
(***************************************************************************)
(* A model of the runtime core of gladlang: class linearization            *)
(* (Interpreter.compute_mro), class definition (Interpreter.visit_ClassNode)*)
(* and the scope, overload, member-access and try/catch machinery.         *)
(* Each part of the runtime has its own variables and its own              *)
(* specification; a specification leaves the other parts' variables alone. *)
(***************************************************************************)
EXTENDS Integers, Sequences, FiniteSets, TLC

\* ------------------------------------------------------------------------
\* Bounds of the model
\* ------------------------------------------------------------------------
\* Class objects created by successful class definitions.
MaxClasses == 4
\* Length of a class statement's superclass list.
MaxSupers == 2

\* Function and method definitions evaluated in one scope or class body.
MaxDefs == 3
\* Declared parameters of a function, the receiver parameter not counted.
MaxArity == 2

\* Scope frames alive at once (the global frame and nested block frames).
MaxFrames == 2
\* Largest Number a variable holds.
MaxNum == 2
\* Member declarations and attribute assignments made before the accesses.
MaxDecls == 2

\* Calls the host's own stack lets nest before visit catches RecursionError.
MaxActive == 252
\* The depth above which Function.execute refuses a call.
RecursionLimit == 250

\* Largest instruction budget configured.
MaxBudget == 5
\* Try statements and loops nested inside one another in a run.
MaxNest == 2
\* Node visits followed in a run without a budget.
MaxFree == 3
\* Node visits followed in a run with a budget: such a run makes fewer, since
\* each running Try statement makes at most two visits (catch and finally
\* body) once the budget ran out.
MaxVisits == MaxBudget + 2 * MaxNest + 2

\* Loops nested inside one another.
MaxLoops == 2
\* Elements of a FOR loop's list, and true tests of a WHILE loop.
MaxElems == 2
\* Statements in the body of a loop or of a function.
MaxStmts == 1

\* Contexts created in a run: the program's and one for each call.
MaxContexts == 3

\* List values created in a run.
MaxObjects == 2

\* Elements of all the lists compared, taken together.
MaxCells == 3

\* Python's None (no class object, no binding).
None == 0

\* ------------------------------------------------------------------------
\* Sequence helpers
\* ------------------------------------------------------------------------
Range(s) == {s[i] : i \in 1..Len(s)}

SeqsUpTo(S, n) == UNION {[1..k -> S] : k \in 0..n}

\* Index of the first occurrence of x in s, 0 when absent (list.index).
IndexOf(s, x) ==
    IF \E i \in 1..Len(s) : s[i] = x
    THEN CHOOSE i \in 1..Len(s) : s[i] = x /\ \A j \in 1..(i - 1) : s[j] # x
    ELSE 0

NoDup(s) == \A i, j \in 1..Len(s) : i # j => s[i] # s[j]

\* s keeps its elements, in its order, inside t (both duplicate-free).
IsSubSeqOrder(s, t) ==
    /\ Range(s) \subseteq Range(t)
    /\ \A i, j \in 1..Len(s) : i < j => IndexOf(t, s[i]) < IndexOf(t, s[j])

RECURSIVE SumLen(_)
SumLen(ml) == IF ml = <<>> THEN 0 ELSE Len(Head(ml)) + SumLen(Tail(ml))

\* ------------------------------------------------------------------------
\* State of the class part
\* ------------------------------------------------------------------------
VARIABLES
    classes,     \* class objects in creation order: [name, superclasses, mro]
    scope,       \* the defining scope: class name -> class object id or None
    lastDef      \* the last class statement evaluated and its result

classVars == <<classes, scope, lastDef>>

\* State of the overload part: one table of callables under construction,
\* either the symbols of a scope (function definitions) or the methods of a
\* class body (method definitions).
VARIABLES
    owner,        \* "scope" | "class": whose table tbl is
    thisExplicit, \* whether instance methods list THIS as first parameter
    tbl,          \* name -> None | Function | FunctionGroup
    ndefs,        \* definitions evaluated so far
    lastStmt,     \* the last definition statement and its result
    lastCall      \* the last call and what it ran

overloadVars == <<owner, thisExplicit, tbl, ndefs, lastStmt, lastCall>>

\* State of the scope part: the chain of SymbolTables from the global frame
\* (first) to the frame of the running block (last); each frame's parent is
\* the frame before it.
VARIABLES
    frames,       \* [symbols, finals, visibilities] per frame
    lastS         \* the last statement evaluated in the running frame

scopeVars == <<frames, lastS>>

\* State of one evaluation of a Try statement (visit_TryCatchNode).
VARIABLES
    node,         \* the statement: which clauses it has
    pc,           \* the body the evaluation visits next, "done" after return
    try_res,      \* the RTResult of the try body
    res,          \* the RTResult the method accumulates
    catch_table,  \* the value bound to the catch variable in the CATCH frame
    catch_res,    \* the RTResult of the catch body
    enclosing,    \* the catch variable's name in the enclosing frame: its
                  \* binding before the statement and now
    visited,      \* the bodies visited so far, in order
    fin_res,      \* the RTResult of the finally body
    returned      \* the RTResult the method returned

tryVars == <<node, pc, try_res, res, catch_table, catch_res, enclosing,
            visited, fin_res, returned>>

\* State of the visibility part: three classes A, B INHERITS A, S INHERITS A,
\* one instance, and one member name.
VARIABLES
    methods,      \* per class, cls.methods.get(member)
    statics,      \* per class, cls.static_symbol_table
    inst,         \* the Instance: class_ref and symbol_table
    ndecl,        \* declarations and attribute assignments made
    lastA         \* the last attribute access and what it came back with

accessVars == <<methods, statics, inst, ndecl, lastA>>

\* State of the call-depth part: one program making nested calls.
VARIABLES
    program,      \* what the program's calls are: "self", "mutual", "nested"
                  \* or "method"
    call_stack,   \* Context.depth of each active call, outermost first
    lastExec      \* the last execute: the callee and how it ended

callVars == <<program, call_stack, lastExec>>

\* State of one run of a program under an instruction budget.
VARIABLES
    instruction_limit,  \* Interpreter.instruction_limit: <<>> for None, <<n>>
    configured,         \* the budget the run was started with
    visits,             \* calls of Interpreter.visit so far
    handlers,           \* the running handlers of loops and Try statements,
                        \* outermost first
    run_result,         \* <<>> while the run lasts, then <<its RTResult>>
    lastVisit           \* the last call of visit

budgetVars == <<instruction_limit, configured, visits, handlers, run_result,
                lastVisit>>

\* State of the loops running in one function body.
VARIABLES
    shape,        \* the program: "sum", "break_at_2", or "any" body
    loops,        \* the body of the enclosing call, then the running loops,
                  \* outermost first
    total,        \* the program's accumulator variable
    body_result,  \* <<>> while the body runs, then <<its RTResult>>
    loop_outs,    \* the results returned by the loops that ended in the
                  \* last step, innermost first
    lastSig,      \* the statement executed in the last step
    lastReturn    \* the last call made in a body: what the callee's body
                  \* came back with, and what the call produced

loopVars == <<shape, loops, total, body_result, loop_outs, lastSig, lastReturn>>

\* State of the contexts of a run and the functions defined in them.
VARIABLES
    contexts,   \* every Context created, in order of creation; 1 is the
                \* program's
    functions,  \* the Function values: each is the context it was defined in
    running,    \* the contexts of the running calls, the program's first
    lastVar     \* the last statement executed

closureVars == <<contexts, functions, running, lastVar>>

\* State of the List values of a run and the variables that hold them.
VARIABLES
    heap,     \* the List objects created: the elements of each
    bound,    \* variable name -> the List object it is bound to (0: unbound)
    lastSet   \* the last statement executed

heapVars == <<heap, bound, lastSet>>

\* State of method lookups in a hierarchy of classes.
VARIABLES
    declares,    \* class -> the method names in its methods dict
    lastLookup   \* the last lookup made

superVars == <<declares, lastLookup>>

\* State of class definitions with method visibilities.
VARIABLES
    bound_classes,  \* the class names bound in the scope
    class_methods,  \* class -> method name -> visibility of its methods entry
    lastClassDef   \* the last class definition and whether it failed

overrideVars == <<bound_classes, class_methods, lastClassDef>>

\* State of the evaluation of arithmetic operators.
VARIABLES
    lastArith      \* the last operator applied, its operands and what it did

arithVars == <<lastArith>>

\* State of the fields of one instance.
VARIABLES
    fields,         \* the instance's symbol table
    lastField      \* the last attribute assignment made and its error

fieldVars == <<fields, lastField>>

\* State of a structural comparison of two lists.
VARIABLES
    cells,          \* list object -> its elements
    eq_stack,       \* the calls of get_comparison_eq in progress, innermost last
    eq_visited,     \* the visited set of pairs
    eq_ret         \* what the call that just returned yielded, <<>> if none did

eqVars == <<cells, eq_stack, eq_visited, eq_ret>>

\* State of the targets of increments.
VARIABLES
    counter,        \* the Number of the variable v
    static_k,       \* the Number of the static field k of class A
    lastInc        \* the last increment or decrement and what it yielded

incVars == <<counter, static_k, lastInc>>

\* State of a For loop over a list.
VARIABLES
    for_node,       \* the For statement evaluated
    for_res,        \* res of visit_ForNode
    for_pos,        \* the index of the element the iterator yields next
    body_visits,    \* the indices of the elements the body was evaluated for
    for_done       \* visit_ForNode has returned

forVars == <<for_node, for_res, for_pos, body_visits, for_done>>

\* State of the evaluation of a list comprehension.
VARIABLES
    comp_node,      \* the comprehension evaluated
    comp_res,       \* res of visit_ListCompNode
    comp_pc,        \* where the evaluation stands
    comp_pos,       \* the index of the element the loop is at
    comp_log,       \* the sub-nodes evaluated so far, in order
    output_list    \* the elements whose output was appended

compVars == <<comp_node, comp_res, comp_pc, comp_pos, comp_log, output_list>>

\* State of the frames of nested blocks.
VARIABLES
    blocks,         \* the blocks being evaluated, innermost last
    block_frames,   \* the names bound in each frame of the chain, innermost last
    lastBlock      \* the last step made

blockVars == <<blocks, block_frames, lastBlock>>

vars == <<classes, scope, lastDef,
          owner, thisExplicit, tbl, ndefs, lastStmt, lastCall,
          frames, lastS,
          node, pc, try_res, res, catch_table, catch_res, enclosing,
          visited, fin_res, returned,
          methods, statics, inst, ndecl, lastA,
          program, call_stack, lastExec,
          instruction_limit, configured, visits, handlers, run_result, lastVisit,
          shape, loops, total, body_result, loop_outs, lastSig, lastReturn,
          contexts, functions, running, lastVar,
          heap, bound, lastSet,
          declares, lastLookup,
          bound_classes, class_methods, lastClassDef,
          lastArith,
          fields, lastField,
          cells, eq_stack, eq_visited, eq_ret,
          counter, static_k, lastInc,
          for_node, for_res, for_pos, body_visits, for_done,
          comp_node, comp_res, comp_pc, comp_pos, comp_log, output_list,
          blocks, block_frames, lastBlock>>

\* Class names; a class statement uses the name of an existing class
\* (a redefinition) or a new one.
ClassNames == 1..MaxClasses

\* ------------------------------------------------------------------------
\* Interpreter.compute_mro
\* ------------------------------------------------------------------------
\* Mutant of InTail: the tail test starts one element too late.
InTail_OffByOne(c, lst) == \E i \in 3..Len(lst) : lst[i] = c

\* candidate in other_lst[1:]
InTail(c, lst) == \E i \in 2..Len(lst) : lst[i] = c

\* merge_list = [x for x in merge_list if x]
DropEmpty(ml) == SelectSeq(ml, LAMBDA x : x # <<>>)

\* Mutant of FindHead: the head of the first list wins without the tail test.
FindHead_NoTailCheck(ml) == ml[1][1]

\* The inner for loops: the head of the first list whose head is in no
\* list's tail, None when there is none.
FindHead(ml) ==
    LET valid(i) == \A j \in 1..Len(ml) : ~InTail(ml[i][1], ml[j])
        ok == {i \in 1..Len(ml) : valid(i)}
    IN  IF ok = {} THEN None
        ELSE ml[CHOOSE i \in ok : \A j \in ok : i <= j][1]

\* for lst in merge_list: if lst and lst[0] == head: lst.pop(0)
PopHead(ml, head) ==
    [i \in 1..Len(ml) |-> IF ml[i] # <<>> /\ ml[i][1] = head
                          THEN Tail(ml[i]) ELSE ml[i]]

\* The while True loop.  iters counts its iterations; the loop is cut after
\* fuel iterations (status "diverged"): a loop that is still running after
\* more iterations than there are list elements has stopped removing
\* elements and never ends.
RECURSIVE MergeLoop(_, _, _, _)
MergeLoop(ml, mro, iters, fuel) ==
    LET live == DropEmpty(ml) IN
    IF live = <<>> THEN [status |-> "ok", mro |-> mro, iters |-> iters]
    ELSE IF fuel = 0 THEN [status |-> "diverged", mro |-> mro, iters |-> iters]
    ELSE LET head == FindHead(live) IN
         IF head = None
         THEN [status |-> "inconsistent", mro |-> <<>>, iters |-> iters]
         ELSE MergeLoop(PopHead(live, head), Append(mro, head),
                        iters + 1, fuel - 1)

\* merge_list = [[class_val]] + [parent.mro[:] ...] + [superclasses[:]]
MergeList(self, supers, cls) ==
    <<<<self>>>> \o [i \in 1..Len(supers) |-> cls[supers[i]].mro] \o <<supers>>

compute_mro(self, supers, cls) ==
    LET ml == MergeList(self, supers, cls)
    IN  MergeLoop(ml, <<>>, 0, SumLen(ml) + 1)

\* ------------------------------------------------------------------------
\* Interpreter.visit_ClassNode (superclasses, linearization, binding)
\* ------------------------------------------------------------------------
\* The first checks of the superclass loop: a superclass with the name of
\* the class being defined is rejected by name.
SelfInherit(name, supers, cls) ==
    \E i \in 1..Len(supers) : cls[supers[i]].name = name

visit_ClassNode(name, supers) ==
    LET self == Len(classes) + 1
        r == compute_mro(self, supers, classes)
    IN  IF SelfInherit(name, supers, classes)
        THEN /\ lastDef' = [name |-> name, supers |-> supers, self |-> self,
                            result |-> "self_inherit", mro |-> <<>>,
                            iters |-> 0, before |-> scope]
             /\ UNCHANGED <<classes, scope>>
        ELSE IF r.status # "ok"
        THEN /\ lastDef' = [name |-> name, supers |-> supers, self |-> self,
                            result |-> r.status, mro |-> <<>>,
                            iters |-> r.iters, before |-> scope]
             /\ UNCHANGED <<classes, scope>>
        ELSE /\ classes' = Append(classes, [name |-> name,
                                            superclasses |-> supers,
                                            mro |-> r.mro])
             /\ scope' = [scope EXCEPT ![name] = self]
             /\ lastDef' = [name |-> name, supers |-> supers, self |-> self,
                            result |-> "ok", mro |-> r.mro,
                            iters |-> r.iters, before |-> scope]

\* A failed class statement is a fatal error: it ends the run, and it leaves
\* classes and scope as they were, so nothing new follows from it.
DefineClass ==
    /\ lastDef.result \in {"none", "ok"}
    /\ Len(classes) < MaxClasses
    /\ \E name \in 1..(Len(classes) + 1) :
       \E supers \in SeqsUpTo(1..Len(classes), MaxSupers) :
          visit_ClassNode(name, supers)

\* ------------------------------------------------------------------------
\* Class linearization: what a hierarchy demands, stated without the merge
\* ------------------------------------------------------------------------
\* Every class reachable from c through superclass lists, c excluded.
RECURSIVE Ancestors(_, _)
Ancestors(c, cls) ==
    LET ds == Range(cls[c].superclasses)
    IN  ds \cup UNION {Ancestors(d, cls) : d \in ds}

\* The pairs <<a, b>> with a somewhere before b in one of the lists.
Precedes(ml) ==
    {pr \in UNION {Range(ml[i]) \X Range(ml[i]) : i \in 1..Len(ml)} :
        \E i \in 1..Len(ml) : \E j, k \in 1..Len(ml[i]) :
            j < k /\ ml[i][j] = pr[1] /\ ml[i][k] = pr[2]}

\* The classes of E can be put in one order that keeps every pair of R:
\* take away the classes nothing precedes, again and again, until none is
\* left (some order exists) or none can be taken (R has a cycle).
RECURSIVE Orderable(_, _)
Orderable(E, R) ==
    IF E = {} THEN TRUE
    ELSE LET first == {e \in E : \A x \in E : <<x, e>> \notin R}
         IN  first # {} /\ Orderable(E \ first, R)

\* The orders a class statement imposes (the parents' linearizations and the
\* declared superclass order) can all be kept by one order of the classes
\* involved.
Consistent(self, supers, cls) ==
    LET ml == MergeList(self, supers, cls)
        elems == UNION {Range(ml[i]) : i \in 1..Len(ml)}
    IN  Orderable(elems, Precedes(ml))

Attempted == lastDef.result # "none"

MroSound(c) ==
    LET m == classes[c].mro IN
    /\ Len(m) >= 1 /\ m[1] = c
    /\ NoDup(m)
    /\ Range(m) = {c} \cup Ancestors(c, classes)
    /\ \A x \in Range(m) : \A s \in Range(classes[x].superclasses) :
          IndexOf(m, x) < IndexOf(m, s)
    /\ IsSubSeqOrder(classes[c].superclasses, m)
    /\ \A a \in Range(m) : IsSubSeqOrder(classes[a].mro, m)

\* C1: for every consistent class statement (its superclasses exist before
\* it, so the hierarchy is acyclic) compute_mro ends within as many
\* iterations as the merge lists have elements and returns an order; the
\* order of every class starts with the class, holds the class and its
\* ancestors once each, puts every class before each of its declared
\* superclasses, keeps the declared superclass order and keeps the order of
\* every ancestor's own linearization.
C1_MroLinearizes ==
    /\ \A c \in 1..Len(classes) : MroSound(c)
    /\ Attempted => lastDef.result # "diverged"
    /\ (Attempted /\ ~SelfInherit(lastDef.name, lastDef.supers, classes)
          /\ Consistent(lastDef.self, lastDef.supers, classes))
       => /\ lastDef.result = "ok"
          /\ lastDef.iters = Len(lastDef.mro)
          /\ lastDef.iters <= SumLen(MergeList(lastDef.self, lastDef.supers, classes))
          /\ classes[lastDef.self].mro = lastDef.mro

\* A diamond: the last class has two superclasses that share an ancestor.
C1_Witness ==
    /\ lastDef.result = "ok"
    /\ Len(lastDef.supers) = 2
    /\ \E a \in 1..Len(classes) :
          /\ a \in Range(classes[lastDef.supers[1]].superclasses)
          /\ a \in Range(classes[lastDef.supers[2]].superclasses)

NoScope == [n \in ClassNames |-> None]

NoDef == [name |-> None, supers |-> <<>>, self |-> None, result |-> "none",
          mro |-> <<>>, iters |-> 0, before |-> NoScope]

\* ------------------------------------------------------------------------
\* Functions, overload groups and bound methods (values.py)
\* ------------------------------------------------------------------------
\* Names of functions defined in the scope, and of methods of the class.
FunNames == {"f", "g"}
MethodNames == {"m"}
TblNames == FunNames \cup MethodNames

\* Parameter names, in declaration order.
UserParams == <<"a", "b", "c", "d", "e">>

\* The receiver and the user-supplied argument values of a call.
Receiver == "obj"
ArgValues == <<"v1", "v2", "v3", "v4", "v5">>
Unbound == "unbound"

\* The only class of this part and the absence of a class.
ClassK == "K"
NoClass == "none"

NoValue == [kind |-> "none"]

\* Function.__init__: at a function statement visibility, defining class and
\* static-ness take their defaults; a method node supplies them.
Function(id, arg_names, visibility, defining_class, is_static) ==
    [kind |-> "fun", id |-> id, arg_names |-> arg_names,
     visibility |-> visibility, defining_class |-> defining_class,
     is_static |-> is_static]

\* FunctionGroup.__init__
FunctionGroup ==
    [kind |-> "group", functions |-> [a \in {} |-> NoValue],
     visibility |-> "PUBLIC", is_static |-> FALSE, defining_class |-> NoClass]

\* FunctionGroup.add_function: the group after the call and the error it
\* returns ("none" for the None it returns on success).
add_function(g, func) ==
    LET arity == Len(func.arg_names)
        fs == [a \in DOMAIN g.functions \cup {arity} |->
                  IF a = arity THEN func ELSE g.functions[a]]
    IN  IF arity \in DOMAIN g.functions
        THEN [group |-> g, error |-> "conflict"]
        ELSE IF Cardinality(DOMAIN fs) = 1
        THEN [group |-> [g EXCEPT !.functions = fs,
                                   !.visibility = func.visibility,
                                   !.is_static = func.is_static,
                                   !.defining_class = func.defining_class],
              error |-> "none"]
        ELSE IF func.visibility # g.visibility
        THEN [group |-> [g EXCEPT !.functions = fs], error |-> "visibility"]
        ELSE [group |-> [g EXCEPT !.functions = fs], error |-> "none"]

\* The value a definition leaves under its name, and the error add_function
\* returned for the new function, if it was called.  Both visit_FunDefNode
\* (existing_val of the scope) and the method loop of visit_ClassNode
\* (methods[method_name]) merge this way.
MergeDefinition(existing, func) ==
    IF existing.kind = "group"
    THEN LET r == add_function(existing, func)
         IN  [value |-> r.group, returned |-> r.error]
    ELSE IF existing.kind = "fun"
    THEN LET g1 == add_function(FunctionGroup, existing).group
             r == add_function(g1, func)
         IN  [value |-> r.group, returned |-> r.error]
    ELSE [value |-> func, returned |-> "none"]

\* The name already has a variant with this many declared parameters.
HasVariant(existing, n) ==
    \/ existing.kind = "fun" /\ Len(existing.arg_names) = n
    \/ existing.kind = "group" /\ n \in DOMAIN existing.functions

\* Mutant of StatementResult: the error add_function returns fails the
\* definition statement.
StatementResult_Checked(err) == IF err = "none" THEN "ok" ELSE "error"

\* The result of the definition statement: visit_FunDefNode ends in
\* res.success(...) and the method loop goes on to the next method, whatever
\* add_function returned.
StatementResult(err) == "ok"

NoStmt == [name |-> "", n |-> 0, conflict |-> FALSE, returned |-> "none",
           result |-> "none"]

NoCall == [via |-> "none", name |-> "", k |-> 0, caller |-> NoClass,
           target |-> NoValue, res |-> [error |-> "none", ran |-> None]]

\* Interpreter.visit_FunDefNode for a named function with n parameters.
visit_FunDefNode(name, n) ==
    LET func == Function(ndefs + 1, SubSeq(UserParams, 1, n), "PUBLIC",
                         NoClass, FALSE)
        m == MergeDefinition(tbl[name], func)
    IN  /\ tbl' = [tbl EXCEPT ![name] = m.value]
        /\ ndefs' = ndefs + 1
        /\ lastStmt' = [name |-> name, n |-> Len(func.arg_names),
                        conflict |-> HasVariant(tbl[name], Len(func.arg_names)),
                        returned |-> m.returned,
                        result |-> StatementResult(m.returned)]
        /\ lastCall' = NoCall
        /\ UNCHANGED <<owner, thisExplicit>>

DefFunction ==
    /\ owner = "scope"
    /\ ndefs < MaxDefs
    /\ \E name \in FunNames : \E n \in 0..MaxArity : visit_FunDefNode(name, n)

\* The parameter list of a method node: under the explicit-receiver
\* convention an instance method lists THIS first.
MethodParams(n, is_static) ==
    (IF thisExplicit /\ ~is_static THEN <<"THIS">> ELSE <<>>)
        \o SubSeq(UserParams, 1, n)

\* One iteration of the method loop of Interpreter.visit_ClassNode, for a
\* class without superclasses (no inherited method to compare with).
ClassMethodNode(name, n, visibility, is_static) ==
    LET func == Function(ndefs + 1, MethodParams(n, is_static), visibility,
                         ClassK, is_static)
        m == MergeDefinition(tbl[name], func)
    IN  /\ tbl' = [tbl EXCEPT ![name] = m.value]
        /\ ndefs' = ndefs + 1
        /\ lastStmt' = [name |-> name, n |-> Len(func.arg_names),
                        conflict |-> HasVariant(tbl[name], Len(func.arg_names)),
                        returned |-> m.returned,
                        result |-> StatementResult(m.returned)]
        /\ lastCall' = NoCall
        /\ UNCHANGED <<owner, thisExplicit>>

DefMethod ==
    /\ owner = "class"
    /\ ndefs < MaxDefs
    /\ \E name \in MethodNames : \E n \in 0..MaxArity :
       \E visibility \in {"PUBLIC", "PRIVATE"} : \E is_static \in BOOLEAN :
          ClassMethodNode(name, n, visibility, is_static)

\* ------------------------------------------------------------------------
\* Calls
\* ------------------------------------------------------------------------
FrameNames == Range(UserParams) \cup {"THIS"}

EmptyFrame == [x \in FrameNames |-> Unbound]

\* BaseFunction.populate_args on a frame.
RECURSIVE populate_args(_, _, _)
populate_args(arg_names, args, frame) ==
    IF args = <<>> THEN frame
    ELSE populate_args(Tail(arg_names), Tail(args),
                       [frame EXCEPT ![Head(arg_names)] = Head(args)])

Failure(msg) == [error |-> msg, ran |-> None]

\* The body of function fn evaluated in frame with the given active class.
Ran(fn, frame) ==
    [error |-> "none", ran |-> fn.id, frame |-> frame,
     active_class |-> fn.defining_class]

\* Function.execute (the call depth is far below the limit here).
Function_execute(fn, args) ==
    IF Len(args) # Len(fn.arg_names) THEN Failure("argument count")
    ELSE Ran(fn, populate_args(fn.arg_names, args, EmptyFrame))

\* FunctionGroup.execute
FunctionGroup_execute(g, args) ==
    IF Len(args) \notin DOMAIN g.functions THEN Failure("no variant")
    ELSE Function_execute(g.functions[Len(args)], args)

\* BoundMethod.execute
BoundMethod_execute(fn, instance, args) ==
    IF fn.kind = "group"
    THEN FunctionGroup_execute(fn, <<instance>> \o args)
    ELSE LET actual_args == IF Len(args) > 0 /\ args[1] = instance
                            THEN Tail(args) ELSE args
             expected == IF Len(fn.arg_names) > 0 /\ fn.arg_names[1] = "THIS"
                         THEN Tail(fn.arg_names) ELSE fn.arg_names
         IN  IF Len(actual_args) # Len(expected)
             THEN Failure("argument count")
             ELSE Ran(fn, populate_args(expected, actual_args,
                                        [EmptyFrame EXCEPT !["THIS"] = instance]))

\* Instance.get_attr on an instance of the class for a name that is no field:
\* Class.get_attr finds the method and checks its visibility against the
\* caller's active class, a static Function comes back unbound, anything
\* else bound to the instance.
Instance_get_method(member, caller) ==
    IF member.kind = "none" THEN [error |-> "no member"]
    ELSE IF member.visibility = "PRIVATE" /\ caller # member.defining_class
    THEN [error |-> "private"]
    ELSE IF member.kind = "fun" /\ member.is_static
    THEN [error |-> "none", bound |-> FALSE, fn |-> member]
    ELSE [error |-> "none", bound |-> TRUE, fn |-> member]

\* obj.name(args) evaluated in a frame whose active class is caller:
\* visit_GetAttrNode, then visit_CallNode.
CallThroughInstance(member, caller, args) ==
    LET got == Instance_get_method(member, caller)
    IN  IF got.error # "none" THEN Failure(got.error)
        ELSE IF got.bound THEN BoundMethod_execute(got.fn, Receiver, args)
        ELSE Function_execute(got.fn, args)

\* name(args): visit_VarAccessNode, then visit_CallNode.
CallByName(value, args) ==
    IF value.kind = "none" THEN Failure("not defined")
    ELSE IF value.kind = "group" THEN FunctionGroup_execute(value, args)
    ELSE Function_execute(value, args)

CallDirect ==
    /\ owner = "scope"
    /\ \E name \in FunNames : \E k \in 0..(MaxArity + 1) :
          lastCall' = [via |-> "direct", name |-> name, k |-> k,
                       caller |-> NoClass, target |-> tbl[name],
                       res |-> CallByName(tbl[name], SubSeq(ArgValues, 1, k))]
    /\ UNCHANGED <<owner, thisExplicit, tbl, ndefs, lastStmt>>

CallBound ==
    /\ owner = "class"
    /\ \E name \in MethodNames : \E k \in 0..(MaxArity + 1) :
       \E caller \in {NoClass, ClassK} :
          lastCall' = [via |-> "bound", name |-> name, k |-> k,
                       caller |-> caller, target |-> tbl[name],
                       res |-> CallThroughInstance(tbl[name], caller,
                                                   SubSeq(ArgValues, 1, k))]
    /\ UNCHANGED <<owner, thisExplicit, tbl, ndefs, lastStmt>>

NoTable == [x \in TblNames |-> NoValue]

\* C3: a function or method definition whose name already has a variant
\* with the same number of parameters in the same scope or class fails: the
\* statement's result is an error.
C3_DuplicateArityFails ==
    lastStmt.conflict => lastStmt.result = "error"

\* The declared parameters of fn without the receiver parameter.
UserArity(fn) ==
    IF Len(fn.arg_names) > 0 /\ fn.arg_names[1] = "THIS"
    THEN Len(fn.arg_names) - 1 ELSE Len(fn.arg_names)

\* What the same call does when fn is the only function of its name.
AloneCall(fn, via, caller, args) ==
    IF via = "direct" THEN CallByName(fn, args)
    ELSE CallThroughInstance(fn, caller, args)

\* C22: each overload group holds one function per arity, stored under its
\* own number of parameters, and the members of a group all have the same
\* visibility and the same static-ness.
C22_GroupsUniform ==
    \A x \in DOMAIN tbl :
        tbl[x].kind = "group" =>
            \A a, b \in DOMAIN tbl[x].functions :
                /\ Len(tbl[x].functions[a].arg_names) = a
                /\ tbl[x].functions[a].visibility = tbl[x].functions[b].visibility
                /\ tbl[x].functions[a].is_static = tbl[x].functions[b].is_static

\* C4: a call of an overload group with k user arguments, direct or through
\* a receiver, runs the variant declared for k arguments, the receiver not
\* counted, exactly as a call of that variant alone would (same frame, same
\* receiver binding), and fails without running a body when the group has
\* no such variant.
C4_DispatchByUserArity ==
    lastCall.target.kind = "group" =>
        LET fs == lastCall.target.functions
            cands == {a \in DOMAIN fs : UserArity(fs[a]) = lastCall.k}
            args == SubSeq(ArgValues, 1, lastCall.k)
        IN  IF cands = {}
            THEN lastCall.res.error # "none" /\ lastCall.res.ran = None
            ELSE \E a \in cands :
                    lastCall.res = AloneCall(fs[a], lastCall.via,
                                             lastCall.caller, args)

\* ------------------------------------------------------------------------
\* Scope frames (runtime.py SymbolTable) and the statements that bind names
\* ------------------------------------------------------------------------
ScopeNames == {"x"}

Num(n) == [kind |-> "num", n |-> n]

ClassValue == [kind |-> "class"]

\* SymbolTable.__init__, over the names the table can come to hold; a name
\* without an entry in visibilities reads as "PUBLIC" (get_visibility).
SymbolTable(names) ==
    [symbols |-> [x \in names |-> NoValue], finals |-> {},
     visibilities |-> [x \in names |-> "PUBLIC"]]

NewTable == SymbolTable(ScopeNames)

\* SymbolTable.remove
ST_remove(t, name) ==
    [t EXCEPT !.symbols[name] = NoValue, !.finals = t.finals \ {name}]

\* name in self.symbols
Bound(t, name) == t.symbols[name] # NoValue

\* SymbolTable.set
ST_set(t, name, value, visibility, as_final) ==
    [symbols |-> [t.symbols EXCEPT ![name] = value],
     visibilities |-> [t.visibilities EXCEPT ![name] = visibility],
     finals |-> IF as_final THEN t.finals \cup {name} ELSE t.finals]

\* SymbolTable.get from frame i up the parent chain.
RECURSIVE ST_get(_, _, _)
ST_get(fs, i, name) ==
    IF i = 0 THEN NoValue
    ELSE IF fs[i].symbols[name] # NoValue THEN fs[i].symbols[name]
    ELSE ST_get(fs, i - 1, name)

\* Mutant of ST_update: the constant test is made in the starting frame
\* only, as the callers' own tests are.
RECURSIVE ST_update_TopFinalOnly(_, _, _, _)
ST_update_TopFinalOnly(fs, i, name, value) ==
    IF i = 0 THEN [frames |-> fs, error |-> "undefined"]
    ELSE IF i = Len(fs) /\ name \in fs[i].finals
    THEN [frames |-> fs, error |-> "constant"]
    ELSE IF Bound(fs[i], name)
    THEN [frames |-> [fs EXCEPT ![i].symbols[name] = value], error |-> "none"]
    ELSE ST_update_TopFinalOnly(fs, i - 1, name, value)

\* SymbolTable.update from frame i up the parent chain: the chain after the
\* call and the error string it returns ("none" for None).
RECURSIVE ST_update(_, _, _, _)
ST_update(fs, i, name, value) ==
    IF i = 0 THEN [frames |-> fs, error |-> "undefined"]
    ELSE IF name \in fs[i].finals THEN [frames |-> fs, error |-> "constant"]
    ELSE IF Bound(fs[i], name)
    THEN [frames |-> [fs EXCEPT ![i].symbols[name] = value], error |-> "none"]
    ELSE ST_update(fs, i - 1, name, value)

Top == Len(frames)

Stmt(op, name, value, result) ==
    [op |-> op, name |-> name, value |-> value, result |-> result]

SetTop(t) == frames' = [frames EXCEPT ![Top] = t]

\* Interpreter.visit_VarAssignNode with is_declaration (LET name = value).
LetStmt ==
    \E name \in ScopeNames : \E n \in 1..MaxNum :
       IF name \in frames[Top].finals
       THEN /\ lastS' = Stmt("let", name, Num(n), "constant")
            /\ UNCHANGED frames
       ELSE /\ SetTop(ST_set(frames[Top], name, Num(n), "PUBLIC", FALSE))
            /\ lastS' = Stmt("let", name, Num(n), "ok")

\* Interpreter.visit_VarAssignNode without is_declaration (name = value).
AssignStmt ==
    \E name \in ScopeNames : \E n \in 1..MaxNum :
       LET r == ST_update(frames, Top, name, Num(n))
       IN  /\ frames' = r.frames
           /\ lastS' = Stmt("assign", name, Num(n),
                            IF r.error = "none" THEN "ok" ELSE r.error)

\* Interpreter.visit_FinalVarAssignNode (FINAL name = value).
FinalStmt ==
    \E name \in ScopeNames : \E n \in 1..MaxNum :
       IF Bound(frames[Top], name)
       THEN /\ lastS' = Stmt("final", name, Num(n), "already defined")
            /\ UNCHANGED frames
       ELSE /\ SetTop(ST_set(frames[Top], name, Num(n), "PUBLIC", TRUE))
            /\ lastS' = Stmt("final", name, Num(n), "ok")

\* Interpreter.visit_VisibilityStmtNode on a variable assignment.
VisibilityStmt ==
    \E name \in ScopeNames : \E n \in 1..MaxNum :
    \E visibility \in {"PUBLIC", "PRIVATE", "FINAL"} :
       IF visibility = "FINAL"
       THEN IF Bound(frames[Top], name)
            THEN /\ lastS' = Stmt("visibility", name, Num(n), "already defined")
                 /\ UNCHANGED frames
            ELSE /\ SetTop(ST_set(frames[Top], name, Num(n), "PUBLIC", TRUE))
                 /\ lastS' = Stmt("visibility", name, Num(n), "ok")
       ELSE /\ SetTop(ST_set(frames[Top], name, Num(n), visibility, FALSE))
            /\ lastS' = Stmt("visibility", name, Num(n), "ok")

\* The loop of Interpreter.visit_MultiVarAssignNode over the target names:
\* the table after it and whether it stopped at a constant.
RECURSIVE MultiAssign(_, _, _)
MultiAssign(t, names, n) ==
    IF names = <<>> THEN [table |-> t, result |-> "ok"]
    ELSE IF Head(names) \in t.finals THEN [table |-> t, result |-> "constant"]
    ELSE MultiAssign(ST_set(t, Head(names), Num(n), "PUBLIC", FALSE),
                     Tail(names), n)

\* Interpreter.visit_MultiVarAssignNode for a list of as many Numbers as
\* there are targets.
MultiVarAssignStmt ==
    \E names \in SeqsUpTo(ScopeNames, 2) \ {<<>>} : \E n \in 1..MaxNum :
       LET r == MultiAssign(frames[Top], names, n)
       IN  /\ SetTop(r.table)
           /\ lastS' = Stmt("multi", names[1], Num(n), r.result)

\* Interpreter.visit_PostOpNode and the increment/decrement branch of
\* visit_UnaryOpNode on a variable; delta is +1 for ++ and -1 for --.
IncrementStmt ==
    \E name \in ScopeNames : \E delta \in {1, -1} :
       LET old == ST_get(frames, Top, name)
       IN  IF name \in frames[Top].finals
           THEN /\ lastS' = Stmt("increment", name, NoValue, "constant")
                /\ UNCHANGED frames
           ELSE IF old = NoValue
           THEN /\ lastS' = Stmt("increment", name, NoValue, "undefined")
                /\ UNCHANGED frames
           ELSE IF old.kind # "num"
           THEN /\ lastS' = Stmt("increment", name, NoValue, "not a number")
                /\ UNCHANGED frames
           ELSE /\ old.n + delta \in 1..MaxNum
                /\ LET r == ST_update(frames, Top, name, Num(old.n + delta))
                   IN  /\ frames' = r.frames
                       /\ lastS' = Stmt("increment", name, Num(old.n + delta),
                                        IF r.error = "none" THEN "ok" ELSE r.error)

\* Interpreter.visit_FunDefNode for a named function without parameters.
FunDefStmt ==
    \E name \in ScopeNames :
       LET func == Function(0, <<>>, "PUBLIC", NoClass, FALSE)
           existing == frames[Top].symbols[name]
           m == MergeDefinition(existing, func)
       IN  /\ SetTop(IF existing.kind = "group"
                     THEN [frames[Top] EXCEPT !.symbols[name] = m.value]
                     ELSE ST_set(frames[Top], name, m.value, "PUBLIC", FALSE))
           /\ lastS' = Stmt("fundef", name, m.value, StatementResult(m.returned))

\* Interpreter.visit_ClassNode for a class without superclasses and members:
\* the last step binds the class name.
ClassDefStmt ==
    \E name \in ScopeNames :
       /\ SetTop(ST_set(frames[Top], name, ClassValue, "PUBLIC", FALSE))
       /\ lastS' = Stmt("classdef", name, ClassValue, "ok")

\* A block is entered: Context(...) with SymbolTable(context.symbol_table).
EnterBlock ==
    /\ Len(frames) < MaxFrames
    /\ frames' = Append(frames, NewTable)
    /\ lastS' = Stmt("enter", "", NoValue, "ok")

\* The block returns and its frame is dropped.
LeaveBlock ==
    /\ Len(frames) > 1
    /\ frames' = SubSeq(frames, 1, Len(frames) - 1)
    /\ lastS' = Stmt("leave", "", NoValue, "ok")

NoLastS == Stmt("none", "", NoValue, "ok")

\* C7: no statement rebinds a name that is final in a frame: whatever the
\* step (assignment, LET, visibility-qualified declaration, destructuring,
\* increment, function or class definition), a frame that is still alive
\* maps each of its final names to the same value after it.
C7_FinalNeverRebound ==
    [][\A i \in 1..Len(frames) : \A name \in frames[i].finals :
          i <= Len(frames') => frames'[i].symbols[name] = frames[i].symbols[name]]_vars

\* The nearest frame, from frame i up the chain, that binds name; 0 if none.
RECURSIVE Nearest(_, _, _)
Nearest(fs, i, name) ==
    IF i = 0 THEN 0
    ELSE IF fs[i].symbols[name] # NoValue THEN i
    ELSE Nearest(fs, i - 1, name)

\* C8: a non-declaring assignment rebinds the name in the nearest frame of
\* the chain that binds it and changes nothing else; it fails with the
\* constant error if the name is final in that frame and with the undefined
\* error if no frame binds it, and a failure leaves every frame unchanged.
C8_UpdateNearest ==
    [][lastS'.op = "assign" =>
         LET k == Nearest(frames, Top, lastS'.name) IN
         IF k = 0 THEN lastS'.result = "undefined" /\ frames' = frames
         ELSE IF lastS'.name \in frames[k].finals
         THEN lastS'.result = "constant" /\ frames' = frames
         ELSE /\ lastS'.result = "ok"
              /\ frames' = [frames EXCEPT ![k].symbols[lastS'.name] = lastS'.value]]_vars

\* An assignment made in a block frame that does not bind the name rebound
\* it in the enclosing frame.
C8_Witness ==
    /\ lastS.op = "assign" /\ lastS.result = "ok"
    /\ Len(frames) >= 2
    /\ frames[Top].symbols[lastS.name] = NoValue
    /\ frames[Top - 1].symbols[lastS.name] = lastS.value

\* ------------------------------------------------------------------------
\* Try / Catch / Finally (interpreter.py visit_TryCatchNode, runtime.py RTResult)
\* ------------------------------------------------------------------------
\* RTError(pos_start, pos_end, details, context, thrown_value=None) as
\* visit_ThrowNode builds it and visit_TryCatchNode reads it.
RTError(details, thrown_value) ==
    [details |-> details, thrown_value |-> thrown_value]

\* No error: the None of RTResult.error.
NoError == RTError("none", "none")

\* str(value) of a thrown value.
Str(value) == "str(" \o value \o ")"

\* String(error_msg)
String(text) == "String(" \o text \o ")"

\* RTResult.__init__; "none" stands for None.
RTResult ==
    [value |-> "none", error |-> NoError, return_value |-> "none",
     should_return |-> FALSE, should_break |-> FALSE, should_continue |-> FALSE]

\* RTResult.register: the receiver after the call.
register(r, other) ==
    [value |-> r.value,
     error |-> IF other.error # NoError THEN other.error ELSE r.error,
     return_value |-> IF other.should_return THEN other.return_value
                      ELSE r.return_value,
     should_return |-> r.should_return \/ other.should_return,
     should_break |-> r.should_break \/ other.should_break,
     should_continue |-> r.should_continue \/ other.should_continue]

success(r, value) == [r EXCEPT !.value = value]

success_return(r, value) ==
    [r EXCEPT !.return_value = value, !.should_return = TRUE]

success_break(r) == [r EXCEPT !.should_break = TRUE]

success_continue(r) == [r EXCEPT !.should_continue = TRUE]

failure(r, error) == [r EXCEPT !.error = error]

\* visit_ThrowNode: the result of THROW value.
visit_ThrowNode(value) == failure(RTResult, RTError(Str(value), value))

\* The results the visit of a body can come back with: a value, a fatal
\* error of the runtime, a THROW of a value, or a return, break or continue
\* signal.
BodyResults(body) ==
    { success(RTResult, body \o ".value"),
      failure(RTResult, RTError(body \o ".error", "none")),
      visit_ThrowNode(body \o ".thrown"),
      success_return(RTResult, body \o ".return"),
      success_break(RTResult),
      success_continue(RTResult) }

Signalled(r) == r.should_return \/ r.should_break \/ r.should_continue

Goto(label, r) == [pc |-> label, res |-> r, returned |-> RTResult]

ReturnRes(r, out) == [pc |-> "done", res |-> r, returned |-> out]

\* The tail of visit_TryCatchNode, reached when neither body left an error
\* or (from the try body) a signal.
TryEnd(nd, r) ==
    IF nd.finally_body_node THEN Goto("finally_end", r)
    ELSE ReturnRes(r, success(r, "null"))

\* Mutant of AfterTry: a signal from the try body returns at once, without
\* the finally body.
AfterTry_SignalSkipsFinally(nd, tr, r) ==
    IF tr.error # NoError
    THEN IF nd.catch_body_node THEN Goto("catch", r)
         ELSE IF nd.finally_body_node THEN Goto("finally_uncaught", r)
         ELSE ReturnRes(r, tr)
    ELSE LET r2 == register(r, tr)
         IN  IF Signalled(r2) THEN ReturnRes(r2, r2)
             ELSE TryEnd(nd, r2)

\* visit_TryCatchNode from the return of the try body to the next body it
\* visits, or to its return.
AfterTry(nd, tr, r) ==
    IF tr.error # NoError
    THEN IF nd.catch_body_node THEN Goto("catch", r)
         ELSE IF nd.finally_body_node THEN Goto("finally_uncaught", r)
         ELSE ReturnRes(r, tr)
    ELSE LET r2 == register(r, tr)
         IN  IF Signalled(r2)
             THEN IF nd.finally_body_node THEN Goto("finally_signal", r2)
                  ELSE ReturnRes(r2, r2)
             ELSE TryEnd(nd, r2)

\* visit_TryCatchNode from the return of the catch body.
AfterCatch(nd, r, cr) ==
    LET r2 == register(r, cr)
    IN  IF r2.error # NoError
        THEN IF nd.finally_body_node THEN Goto("finally_caught", r2)
             ELSE ReturnRes(r2, r2)
        ELSE TryEnd(nd, r2)

\* visit_TryCatchNode from the return of the finally body: what it returns,
\* by the place the finally body was visited from.
AfterFinally(at, tr, r, fr) ==
    IF at = "finally_caught"
    THEN IF fr.error # NoError THEN ReturnRes(failure(r, fr.error), failure(r, fr.error))
         ELSE ReturnRes(r, r)
    ELSE IF at = "finally_uncaught"
    THEN IF fr.error # NoError THEN ReturnRes(r, fr) ELSE ReturnRes(r, tr)
    ELSE IF at = "finally_signal"
    THEN ReturnRes(r, r)
    ELSE LET r2 == register(r, fr)
         IN  IF r2.error # NoError THEN ReturnRes(r2, r2)
             ELSE ReturnRes(success(r2, "null"), success(r2, "null"))

\* Mutant of val_to_assign: the catch variable always receives the message.
val_to_assign_MessageOnly(error) == String(error.details)

\* visit_TryCatchNode: the value the catch variable is bound to.
val_to_assign(error) ==
    IF error.thrown_value # "none" THEN error.thrown_value
    ELSE String(error.details)

\* self.visit(node.try_body_node, context) and what follows it.
VisitTryBody ==
    /\ pc = "try"
    /\ \E tr \in BodyResults("try") :
          LET n == AfterTry(node, tr, res)
          IN  /\ try_res' = tr
              /\ pc' = n.pc
              /\ res' = n.res
              /\ returned' = n.returned
              /\ catch_table' = IF n.pc = "catch" /\ node.catch_var_node
                                THEN val_to_assign(tr.error) ELSE catch_table
    /\ visited' = Append(visited, "try")
    /\ UNCHANGED <<node, fin_res, catch_res, enclosing>>

\* self.visit(node.catch_body_node, catch_context) and what follows it.
VisitCatchBody ==
    /\ pc = "catch"
    /\ \E cr \in BodyResults("catch") :
          LET n == AfterCatch(node, res, cr)
          IN  /\ catch_res' = cr
              /\ pc' = n.pc
              /\ res' = n.res
              /\ returned' = n.returned
    /\ visited' = Append(visited, "catch")
    /\ UNCHANGED <<node, try_res, catch_table, fin_res, enclosing>>

\* self.visit(node.finally_body_node, context) and what follows it.
VisitFinallyBody ==
    /\ pc \in {"finally_caught", "finally_uncaught", "finally_signal",
               "finally_end"}
    /\ \E fr \in BodyResults("finally") :
          LET n == AfterFinally(pc, try_res, res, fr)
          IN  /\ fin_res' = fr
              /\ pc' = n.pc
              /\ res' = n.res
              /\ returned' = n.returned
    /\ visited' = Append(visited, "finally")
    /\ UNCHANGED <<node, try_res, catch_table, catch_res, enclosing>>

\* The Try statements: a try body with a catch clause (with or without a
\* catch variable), a finally clause, or both.
TryCatchNodes ==
    { nd \in [catch_body_node : BOOLEAN, catch_var_node : BOOLEAN,
              finally_body_node : BOOLEAN] :
         /\ nd.catch_var_node => nd.catch_body_node
         /\ nd.catch_body_node \/ nd.finally_body_node }

NoEnclosing == [before |-> "none", now |-> "none"]

NoNode ==
    [catch_body_node |-> TRUE, catch_var_node |-> FALSE,
     finally_body_node |-> FALSE]

Count(seq, x) == Cardinality({i \in 1..Len(seq) : seq[i] = x})

\* C9: a Try statement with a Finally clause visits the Finally body
\* exactly once per evaluation, as the last body, after the try body and
\* after the catch body when that ran, whatever the try and catch bodies
\* came back with; no evaluation visits it twice.
C9_FinallyExactlyOnce ==
    /\ Count(visited, "finally") <= 1
    /\ (pc = "done" /\ node.finally_body_node) =>
          /\ Count(visited, "finally") = 1
          /\ visited[Len(visited)] = "finally"
          /\ visited[1] = "try"

\* The try body returned, broke or continued and the finally body ran.
C9_Witness ==
    /\ pc = "done"
    /\ node.finally_body_node
    /\ Signalled(try_res)
    /\ visited = <<"try", "finally">>

\* C10: when the Finally body raises a fatal error, the Try statement
\* returns that error, whatever the try or catch body left pending.
C10_FinallyErrorSupersedes ==
    (pc = "done" /\ fin_res.error # NoError) => returned.error = fin_res.error

AccessClasses == {"A", "B", "S"}

\* Class.mro of CLASS A, CLASS B INHERITS A and CLASS S INHERITS A, as
\* compute_mro yields them.
Mro(c) ==
    CASE c = "A" -> <<"A">>
      [] c = "B" -> <<"B", "A">>
      [] c = "S" -> <<"S", "A">>

Member == "m"

\* f"_{context.active_class.name}__{name}"; None without an active class.
Mangled(active) == IF active = NoClass THEN "None" ELSE "_" \o active \o "__m"

InstanceKeys == {Member} \cup {Mangled(c) : c \in AccessClasses \cup {NoClass}}

NoMember == [kind |-> "none", visibility |-> "none", defining_class |-> NoClass]

\* (value, error) as the get_attr methods return it, with the member the
\* lookup stopped at: its kind, its visibility and its defining class.
Found(value, kind, visibility, defining_class) ==
    [error |-> "none", value |-> value,
     member |-> [kind |-> kind, visibility |-> visibility,
                 defining_class |-> defining_class]]

Denied(msg, kind, visibility, defining_class) ==
    [error |-> msg, value |-> NoValue,
     member |-> [kind |-> kind, visibility |-> visibility,
                 defining_class |-> defining_class]]

Missing(msg) == [error |-> msg, value |-> NoValue, member |-> NoMember]

\* The loop of Class.get_attr over the classes of self.mro.
RECURSIVE ClassLookup(_, _)
ClassLookup(mro, active) ==
    IF mro = <<>> THEN Missing("no member")
    ELSE
      LET cls == Head(mro)
          val == statics[cls].symbols[Member]
          method == methods[cls]
      IN  IF val # NoValue
          THEN LET visibility == statics[cls].visibilities[Member]
               IN  IF visibility = "PRIVATE" /\ active # cls
                   THEN Denied("private static field", "static", visibility, cls)
                   ELSE IF /\ visibility = "PROTECTED"
                           /\ ~ /\ active # NoClass
                                /\ \/ cls \in Range(Mro(active))
                                   \/ active \in Range(Mro(cls))
                   THEN Denied("protected static field", "static", visibility, cls)
                   ELSE Found(val, "static", visibility, cls)
          ELSE IF method # NoValue
          THEN IF method.visibility = "PRIVATE" /\ active # method.defining_class
               THEN Denied("private method via Class", "method",
                           method.visibility, method.defining_class)
               ELSE IF /\ method.visibility = "PROTECTED"
                       /\ ~ /\ active # NoClass
                            /\ method.defining_class \in Range(Mro(active))
               THEN Denied("protected method via Class", "method",
                           method.visibility, method.defining_class)
               ELSE Found(method, "method", method.visibility,
                          method.defining_class)
          ELSE ClassLookup(Tail(mro), active)

\* Class.get_attr
Class_get_attr(cls, active) == ClassLookup(Mro(cls), active)

\* Instance.check_access: the error, "none" for None.
check_access(visibility, defining_class, active) ==
    IF visibility = "PUBLIC" THEN "none"
    ELSE IF visibility = "PRIVATE" /\ active # defining_class
    THEN "private member"
    ELSE IF /\ visibility = "PROTECTED"
            /\ ~ /\ active # NoClass
                 /\ \/ defining_class \in Range(Mro(active))
                    \/ active \in Range(Mro(defining_class))
    THEN "protected member"
    ELSE "none"

\* Instance.get_attr
Instance_get_attr(active) ==
    LET t == inst.symbol_table
    IN  IF active # NoClass /\ t.symbols[Mangled(active)] # NoValue
        THEN Found(t.symbols[Mangled(active)], "field",
                   t.visibilities[Mangled(active)], active)
        ELSE IF t.symbols[Member] # NoValue
        THEN LET visibility == t.visibilities[Member]
                 error == check_access(visibility, inst.class_ref, active)
             IN  IF error # "none"
                 THEN Denied(error, "field", visibility, inst.class_ref)
                 ELSE Found(t.symbols[Member], "field", visibility,
                            inst.class_ref)
        ELSE LET r == Class_get_attr(inst.class_ref, active)
             IN  IF r.error # "none" THEN r
                 ELSE IF r.value.kind = "fun" /\ ~r.value.is_static
                 THEN LET error == check_access(r.value.visibility,
                                                r.value.defining_class, active)
                      IN  IF error # "none"
                          THEN Denied(error, "method", r.value.visibility,
                                      r.value.defining_class)
                          ELSE r
                 ELSE r

\* The loop of Super.get_attr over the classes after start_class.
RECURSIVE SuperLookup(_)
SuperLookup(mro) ==
    IF mro = <<>> THEN Missing("not found in superclasses")
    ELSE IF methods[Head(mro)] # NoValue
    THEN Found(methods[Head(mro)], "method", methods[Head(mro)].visibility,
               methods[Head(mro)].defining_class)
    ELSE SuperLookup(Tail(mro))

\* visit_VarAccessNode of SUPER in a frame whose THIS is the instance,
\* followed by Super.get_attr.
Super_get_attr(active) ==
    LET mro == Mro(inst.class_ref)
        start_index == IndexOf(mro, active) + 1
    IN  IF active = NoClass THEN Missing("SUPER outside of a class")
        ELSE IF active \notin Range(mro) THEN Missing("class not in MRO")
        ELSE SuperLookup(SubSeq(mro, start_index, Len(mro)))

\* Instance.set_attr: the instance's table after the call and the error.
Instance_set_attr(active, vis_arg, value) ==
    LET t == inst.symbol_table
        as_final == vis_arg = "FINAL"
        visibility == IF vis_arg = "FINAL" THEN "PUBLIC" ELSE vis_arg
        mangled_name == Mangled(active)
    IN  IF visibility # "none"
        THEN LET target_name == IF visibility = "PRIVATE" THEN mangled_name
                                ELSE Member
                 t1 == ST_set(t, target_name, value, visibility, as_final)
             IN  IF t.symbols[target_name] # NoValue
                 THEN [table |-> t, error |-> "already defined"]
                 ELSE IF visibility = "PRIVATE" /\ t1.symbols[Member] # NoValue
                 THEN IF Member \in t1.finals
                      THEN [table |-> t1, error |-> "cannot shadow constant"]
                      ELSE [table |-> ST_remove(t1, Member), error |-> "none"]
                 ELSE [table |-> t1, error |-> "none"]
        ELSE IF active # NoClass /\ t.symbols[mangled_name] # NoValue
        THEN IF mangled_name \in t.finals
             THEN [table |-> t, error |-> "constant"]
             ELSE [table |-> ST_set(t, mangled_name, value, "PRIVATE", FALSE),
                   error |-> "none"]
        ELSE IF t.symbols[Member] # NoValue
        THEN LET current_vis == t.visibilities[Member]
                 error == check_access(current_vis, inst.class_ref, active)
             IN  IF error # "none" THEN [table |-> t, error |-> error]
                 ELSE IF Member \in t.finals
                 THEN [table |-> t, error |-> "constant"]
                 ELSE [table |-> ST_set(t, Member, value, current_vis, FALSE),
                       error |-> "none"]
        ELSE IF /\ statics[inst.class_ref].symbols[Member] # NoValue
                /\ Member \in statics[inst.class_ref].finals
        THEN [table |-> t, error |-> "cannot shadow static constant"]
        ELSE [table |-> ST_set(t, Member, value, "PUBLIC", FALSE),
              error |-> "none"]

Visibilities == {"PUBLIC", "PRIVATE", "PROTECTED"}

NoAccess ==
    [via |-> "none", target |-> NoClass, active |-> NoClass, error |-> "none",
     member |-> NoMember]

Access(via, target, active, r) ==
    [via |-> via, target |-> target, active |-> active, error |-> r.error,
     member |-> r.member]

\* The method loop of visit_ClassNode gives class cls a method of the member
\* name.
DeclareMethod ==
    /\ ndecl < MaxDecls
    /\ \E cls \in AccessClasses : \E visibility \in Visibilities :
       \E is_static \in BOOLEAN :
          /\ methods[cls] = NoValue
          /\ methods' = [methods EXCEPT ![cls] =
                            Function(ndecl + 1, <<>>, visibility, cls, is_static)]
    /\ ndecl' = ndecl + 1
    /\ UNCHANGED <<statics, inst, lastA>>

\* The static field statements of visit_ClassNode give class cls a static
\* field of the member name.
DeclareStaticField ==
    /\ ndecl < MaxDecls
    /\ \E cls \in AccessClasses : \E visibility \in Visibilities :
          /\ statics[cls].symbols[Member] = NoValue
          /\ statics' = [statics EXCEPT ![cls] =
                            ST_set(statics[cls], Member, Num(1), visibility, FALSE)]
    /\ ndecl' = ndecl + 1
    /\ UNCHANGED <<methods, inst, lastA>>

\* visit_SetAttrNode, or visit_VisibilityStmtNode on an attribute, on the
\* instance from a frame with the given active class.
SetAttr ==
    /\ ndecl < MaxDecls
    /\ \E active \in AccessClasses \cup {NoClass} :
       \E vis_arg \in Visibilities \cup {"FINAL", "none"} :
          LET r == Instance_set_attr(active, vis_arg, Num(1))
          IN  inst' = [inst EXCEPT !.symbol_table = r.table]
    /\ ndecl' = ndecl + 1
    /\ UNCHANGED <<methods, statics, lastA>>

\* visit_GetAttrNode on the instance.
GetThroughInstance ==
    /\ \E active \in AccessClasses \cup {NoClass} :
          lastA' = Access("instance", inst.class_ref, active,
                          Instance_get_attr(active))
    /\ UNCHANGED <<methods, statics, inst, ndecl>>

\* visit_GetAttrNode on a class.
GetThroughClass ==
    /\ \E cls \in AccessClasses : \E active \in AccessClasses \cup {NoClass} :
          lastA' = Access("class", cls, active, Class_get_attr(cls, active))
    /\ UNCHANGED <<methods, statics, inst, ndecl>>

\* visit_GetAttrNode on SUPER inside a method running on the instance.
GetThroughSuper ==
    /\ \E active \in AccessClasses \cup {NoClass} :
          lastA' = Access("super", inst.class_ref, active,
                          Super_get_attr(active))
    /\ UNCHANGED <<methods, statics, inst, ndecl>>

NoMethods == [c \in AccessClasses |-> NoValue]

NoStatics == [c \in AccessClasses |-> SymbolTable({Member})]

Instance(class_ref) ==
    [class_ref |-> class_ref, symbol_table |-> SymbolTable(InstanceKeys)]

\* C5: an access to a PRIVATE member, through an instance, a class or SUPER,
\* succeeds only if the active class of the accessing frame is the class
\* that defined the member.
C5_PrivateOnlyDefiningClass ==
    (lastA.member.visibility = "PRIVATE" /\ lastA.error = "none")
        => lastA.active = lastA.member.defining_class

\* A class of the MRO declares a method of the member name.
MroDeclaresMethod(mro) == \E i \in 1..Len(mro) : methods[mro[i]] # NoValue

\* C19: a read of the member through the instance that succeeds yields the
\* private slot of the active class if there is one, else the instance's
\* own field if there is one, else a method if a class of the MRO declares
\* one, and a static field only if none does.
C19_MethodBeforeStaticField ==
    [][ (/\ lastA'.via = "instance"
         /\ lastA'.error = "none"
         /\ lastA'.member.kind # "none"
         /\ UNCHANGED <<methods, statics, inst, ndecl>>) =>
            LET active == lastA'.active
                t == inst.symbol_table
            IN  lastA'.member.kind =
                    IF active # NoClass /\ t.symbols[Mangled(active)] # NoValue
                    THEN "field"
                    ELSE IF t.symbols[Member] # NoValue THEN "field"
                    ELSE IF MroDeclaresMethod(Mro(inst.class_ref)) THEN "method"
                    ELSE "static" ]_vars

\* The active class and the defining class are related by MRO containment.
Related(active, defining_class) ==
    /\ active # NoClass
    /\ \/ defining_class \in Range(Mro(active))
       \/ active \in Range(Mro(defining_class))

\* C6: an access to a PROTECTED member succeeds if the active class is the
\* defining class, a descendant or an ancestor of it, and fails otherwise.
C6_ProtectedEitherDirection ==
    lastA.member.visibility = "PROTECTED"
        => (lastA.error = "none" <=> Related(lastA.active, lastA.member.defining_class))

\* ------------------------------------------------------------------------
\* Call depth (values.py generate_new_context, Function.execute,
\* BoundMethod.execute; runtime.py Context; interpreter.py visit)
\* ------------------------------------------------------------------------
\* The programs:
\*   "self"    DEF f() { f() } ; f()
\*   "mutual"  DEF f() { DEF g() { f() } ; g() } ; f()
\*   "nested"  DEF f1() { DEF f2() { DEF f3() { ... } ; f3() } ; f2() } ; f1()
\*   "method"  CLASS K { DEF m(THIS) { THIS.m() } } ; (NEW K()).m()
Programs == {"self", "mutual", "nested", "method"}

\* Context.depth of the running context: 0 for the program's context.
RunningDepth(stack) == IF stack = <<>> THEN 0 ELSE stack[Len(stack)]

\* The callee of the next call: whether it is a Function or a BoundMethod,
\* and the depth of the context it was defined in (Function.context, set by
\* visit_FunDefNode and visit_ClassNode to the context of the definition).
Callee(prog, stack) ==
    CASE prog = "self" -> [kind |-> "Function", context_depth |-> 0]
      [] prog = "method" -> [kind |-> "BoundMethod", context_depth |-> 0]
      [] prog = "nested" ->
            [kind |-> "Function", context_depth |-> RunningDepth(stack)]
      [] prog = "mutual" ->
            IF Len(stack) % 2 = 0
            THEN [kind |-> "Function", context_depth |-> 0]
            ELSE [kind |-> "Function", context_depth |-> RunningDepth(stack)]

\* Context.__init__ reached from generate_new_context: the depth of the new
\* context is one more than that of the callee's defining context.
generate_new_context(callee) == callee.context_depth + 1

\* Function.execute and BoundMethod.execute up to the visit of the body:
\* "Recursion limit exceeded", or "body" when the body is visited.
execute(callee) ==
    IF callee.kind = "Function" /\ generate_new_context(callee) > RecursionLimit
    THEN "Recursion limit exceeded"
    ELSE "body"

NoExec == [kind |-> "none", active |-> 0, outcome |-> "none"]

\* visit_CallNode: execute the callee; the host raises RecursionError, which
\* visit turns into a fatal error, when the host's stack is used up.
Call ==
    /\ lastExec.outcome \in {"none", "body", "returned"}
    /\ LET callee == Callee(program, call_stack)
           outcome == IF Len(call_stack) >= MaxActive
                      THEN "Expression too complex"
                      ELSE execute(callee)
       IN  /\ lastExec' = [kind |-> callee.kind, active |-> Len(call_stack),
                           outcome |-> outcome]
           /\ call_stack' = IF outcome = "body"
                            THEN Append(call_stack, generate_new_context(callee))
                            ELSE call_stack
    /\ UNCHANGED program

\* The body of the innermost call comes back, with a value or with the
\* error of a failed call.
Return ==
    /\ call_stack # <<>>
    /\ call_stack' = SubSeq(call_stack, 1, Len(call_stack) - 1)
    /\ lastExec' = IF lastExec.outcome \in {"body", "returned"}
                   THEN [lastExec EXCEPT !.outcome = "returned"]
                   ELSE lastExec
    /\ UNCHANGED program

\* C12: at most 250 calls are active at once, and a call made while 250 are
\* active fails with 'Recursion limit exceeded' instead of evaluating its
\* body.
C12_CallDepthCapped ==
    /\ Len(call_stack) <= RecursionLimit
    /\ (lastExec.kind # "none" /\ lastExec.active >= RecursionLimit)
          => lastExec.outcome = "Recursion limit exceeded"

\* ------------------------------------------------------------------------
\* Instruction budget (interpreter.py visit, visit_WhileNode,
\* visit_TryCatchNode; __main__.py run)
\* ------------------------------------------------------------------------
BudgetError == RTError("Runtime Error: Instruction budget exceeded", "none")

\* Mutant of visit: the budget is exceeded only below zero.
visit_BelowZero(limit) ==
    IF limit = <<>> THEN [limit |-> limit, exceeded |-> FALSE]
    ELSE [limit |-> <<limit[1] - 1>>, exceeded |-> limit[1] - 1 < 0]

\* Mutant of visit: the budget is tested but not decremented.
visit_NoDecrement(limit) ==
    IF limit = <<>> THEN [limit |-> limit, exceeded |-> FALSE]
    ELSE [limit |-> limit, exceeded |-> limit[1] <= 0]

\* The head of Interpreter.visit: the budget after the call and whether the
\* call fails with the budget error before any handler is chosen.
visit(limit) ==
    IF limit = <<>> THEN [limit |-> limit, exceeded |-> FALSE]
    ELSE [limit |-> <<limit[1] - 1>>, exceeded |-> limit[1] - 1 <= 0]

\* A running handler: a loop (visit_WhileNode) or a Try statement.
LoopHandler ==
    [kind |-> "loop", node |-> NoNode, pc |-> "start", try_res |-> RTResult,
     res |-> RTResult, out |-> RTResult]

TryHandler(nd) ==
    [kind |-> "try", node |-> nd, pc |-> "try", try_res |-> RTResult,
     res |-> RTResult, out |-> RTResult]

\* visit_WhileNode after a visit of its condition or body came back with r.
LoopConsume(h, r) ==
    LET r1 == register(h.res, r)
    IN  IF r1.error # NoError
        THEN [h EXCEPT !.pc = "done", !.res = r1, !.out = r1]
        ELSE IF r1.should_continue
        THEN [h EXCEPT !.pc = "loop",
                       !.res = [r1 EXCEPT !.should_continue = FALSE]]
        ELSE IF r1.should_break
        THEN [h EXCEPT !.pc = "done",
                       !.res = [r1 EXCEPT !.should_break = FALSE],
                       !.out = success([r1 EXCEPT !.should_break = FALSE], "null")]
        ELSE IF r1.should_return
        THEN [h EXCEPT !.pc = "done", !.res = r1, !.out = r1]
        ELSE [h EXCEPT !.pc = "loop", !.res = r1]

\* visit_TryCatchNode after the visit of one of its bodies came back with r.
TryConsume(h, r) ==
    LET n == IF h.pc = "try" THEN AfterTry(h.node, r, h.res)
             ELSE IF h.pc = "catch" THEN AfterCatch(h.node, h.res, r)
             ELSE AfterFinally(h.pc, h.try_res, h.res, r)
    IN  [h EXCEPT !.pc = n.pc, !.res = n.res, !.out = n.returned,
                  !.try_res = IF h.pc = "try" THEN r ELSE h.try_res]

Consume(h, r) == IF h.kind = "loop" THEN LoopConsume(h, r) ELSE TryConsume(h, r)

\* The results of a handler that visits no loop or Try statement below it.
LeafResults ==
    { success(RTResult, "value"), failure(RTResult, RTError("error", "none")),
      success_return(RTResult, "value"), success_break(RTResult),
      success_continue(RTResult) }

NoVisit == [k |-> 0, exceeded |-> FALSE, handler |-> "none", of |-> "none"]

\* The visit just made came back with r: the innermost running handler
\* takes it, or the run ends with it when the visit was that of the program.
Deliver(hs, r) ==
    IF hs = <<>> THEN [handlers |-> hs, run_result |-> <<r>>]
    ELSE [handlers |-> [hs EXCEPT ![Len(hs)] = Consume(hs[Len(hs)], r)],
          run_result |-> <<>>]

\* Interpreter.visit of the program (from run) or of a child node of the
\* innermost running handler: the budget is charged, and either the visit
\* fails at once, or a handler without loops below it runs and comes back,
\* or the handler of a loop or of a Try statement starts.
Visit ==
    /\ run_result = <<>>
    /\ handlers = <<>> => visits = 0
    /\ handlers # <<>> => handlers[Len(handlers)].pc # "done"
    /\ visits < (IF instruction_limit = <<>> THEN MaxFree ELSE MaxVisits)
    /\ LET v == visit(instruction_limit)
           of == IF handlers = <<>> THEN "program"
                 ELSE handlers[Len(handlers)].pc
           seen(handler) == [k |-> visits + 1, exceeded |-> v.exceeded,
                             handler |-> handler, of |-> of]
       IN  /\ instruction_limit' = v.limit
           /\ visits' = visits + 1
           /\ IF v.exceeded
              THEN LET d == Deliver(handlers, failure(RTResult, BudgetError))
                   IN  /\ handlers' = d.handlers
                       /\ run_result' = d.run_result
                       /\ lastVisit' = seen("none")
              ELSE \/ \E r \in LeafResults :
                         LET d == Deliver(handlers, r)
                         IN  /\ handlers' = d.handlers
                             /\ run_result' = d.run_result
                             /\ lastVisit' = seen("leaf")
                   \/ /\ Len(handlers) < MaxNest
                      /\ \E h \in {LoopHandler}
                                  \cup {TryHandler(nd) : nd \in TryCatchNodes} :
                            /\ handlers' = Append(handlers, h)
                            /\ lastVisit' = seen(h.kind)
                      /\ UNCHANGED run_result
    /\ UNCHANGED configured

\* The innermost running handler returns: a Try statement when it is done,
\* a loop when it is done or when its condition came out false.
HandlerReturns ==
    /\ run_result = <<>>
    /\ handlers # <<>>
    /\ LET h == handlers[Len(handlers)]
           rest == SubSeq(handlers, 1, Len(handlers) - 1)
           out == IF h.pc = "done" THEN h.out ELSE success(h.res, "null")
           d == Deliver(rest, out)
       IN  /\ h.pc = "done" \/ (h.kind = "loop" /\ h.pc = "loop")
           /\ handlers' = d.handlers
           /\ run_result' = d.run_result
    /\ UNCHANGED <<instruction_limit, configured, visits, lastVisit>>

\* C13: with a budget N configured, every node visit takes one from the
\* budget, and the k-th visit of a run runs a handler exactly when k < N,
\* that is while the budget left after it is above zero; the N-th and
\* every later visit, those of catch and finally bodies too, fails with
\* the budget error and runs no handler.
C13_BudgetNotResumable ==
    (configured # <<>> /\ visits >= 1) =>
        /\ lastVisit.k = visits
        /\ instruction_limit = <<configured[1] - visits>>
        /\ lastVisit.exceeded <=> visits >= configured[1]
        /\ lastVisit.handler # "none" <=> visits < configured[1]

\* A finally body is visited after the budget ran out in the catch body,
\* and its visit fails as well.
C13_Witness ==
    /\ configured # <<>>
    /\ lastVisit.of = "finally_caught"
    /\ lastVisit.exceeded
    /\ lastVisit.handler = "none"
    /\ visits > configured[1] + 1

\* C14: with a finite budget configured, every run ends with a result,
\* whatever loops and Try statements the program nests.
C14_BudgetedRunTerminates ==
    /\ [](configured # <<>> => visits < MaxVisits)
    /\ (configured # <<>>) ~> (run_result # <<>>)

\* A run that went on visiting after the budget ran out, through the
\* bodies of a Try statement, and ended with the budget error.
C14_Witness ==
    /\ configured # <<>>
    /\ run_result # <<>>
    /\ run_result[1].error = BudgetError
    /\ visits > configured[1] + 1

\* ------------------------------------------------------------------------
\* Loops and their signals (interpreter.py visit_StatementListNode,
\* visit_ForNode, visit_WhileNode, visit_BreakNode, visit_ContinueNode,
\* visit_ReturnNode)
\* ------------------------------------------------------------------------
\* The list of the example program FOR x IN [1, 2, 3].
ExampleList == <<1, 2, 3>>

\* A running statement list: the body of the enclosing call, or the body
\* of a loop in its i-th of n iterations, pos statements of it done.
BodyFrame == [kind |-> "Body", n |-> 1, i |-> 1, pos |-> 0, res |-> RTResult]

LoopFrame(kind, n) == [kind |-> kind, n |-> n, i |-> 1, pos |-> 0, res |-> RTResult]

Running(fs, out) == [loops |-> fs, body_result |-> <<>>, outs |-> out]

RECURSIVE StatementDone(_, _, _)
\* visit_ForNode / visit_WhileNode return r to the statement list that
\* holds the loop.
LoopReturns(fs, r, out) ==
    StatementDone(SubSeq(fs, 1, Len(fs) - 1), r, Append(out, r))

\* The loop goes to its next element or test, and ends with null after
\* the last one.
NextIteration(fs, r, out) ==
    LET f == fs[Len(fs)]
    IN  IF f.i < f.n
        THEN Running([fs EXCEPT ![Len(fs)] =
                         [f EXCEPT !.i = f.i + 1, !.pos = 0, !.res = r]], out)
        ELSE LoopReturns(fs, success(r, "null"), out)

\* Mutant of AfterBody: BREAK ends the loop with the break flag still set.
AfterBody_BreakNotCleared(fs, b, out) ==
    LET f == fs[Len(fs)]
        r == register(f.res, b)
    IN  IF r.error # NoError THEN LoopReturns(fs, r, out)
        ELSE IF r.should_continue
        THEN NextIteration(fs, [r EXCEPT !.should_continue = FALSE], out)
        ELSE IF r.should_break
        THEN LoopReturns(fs, success(r, "null"), out)
        ELSE IF r.should_return THEN LoopReturns(fs, r, out)
        ELSE NextIteration(fs, r, out)

\* visit_ForNode / visit_WhileNode after the visit of the body came back
\* with b.
AfterBody(fs, b, out) ==
    LET f == fs[Len(fs)]
        r == register(f.res, b)
    IN  IF r.error # NoError THEN LoopReturns(fs, r, out)
        ELSE IF r.should_continue
        THEN NextIteration(fs, [r EXCEPT !.should_continue = FALSE], out)
        ELSE IF r.should_break
        THEN LoopReturns(fs, success([r EXCEPT !.should_break = FALSE], "null"), out)
        ELSE IF r.should_return THEN LoopReturns(fs, r, out)
        ELSE NextIteration(fs, r, out)

\* visit_StatementListNode after one of its statements came back with s:
\* an error or a signal ends the list at once.
StatementDone(fs, s, out) ==
    LET f == fs[Len(fs)]
        l == register(RTResult, s)
    IN  IF l.error # NoError \/ Signalled(l)
        THEN IF f.kind = "Body"
             THEN [loops |-> <<>>, body_result |-> <<l>>, outs |-> out]
             ELSE AfterBody(fs, l, out)
        ELSE Running([fs EXCEPT ![Len(fs)] = [f EXCEPT !.pos = f.pos + 1]], out)

\* The statement list comes to its end.
ListEnds(fs) ==
    LET f == fs[Len(fs)]
    IN  IF f.kind = "Body"
        THEN [loops |-> <<>>, body_result |-> <<success(RTResult, "last")>>,
              outs |-> <<>>]
        ELSE AfterBody(fs, success(RTResult, "last"), <<>>)

Become(n, sig) ==
    /\ loops' = n.loops
    /\ body_result' = n.body_result
    /\ loop_outs' = n.outs
    /\ lastSig' = sig

InLoopBody == body_result = <<>> /\ loops # <<>> /\ loops[Len(loops)].pos < MaxStmts

\* FOR and WHILE statements: the loop starts, or ends at once when the
\* list is empty or the first test false.
LoopStmt ==
    /\ InLoopBody
    /\ Len(loops) <= MaxLoops
    /\ \E kind \in {"For", "While"}, n \in 0..MaxElems :
          /\ shape # "any" =>
                /\ Len(loops) = 1 /\ loops[1].pos = 0 /\ kind = "For"
                /\ n = Len(ExampleList)
          /\ shape = "any" => n <= MaxElems
          /\ IF n = 0
             THEN Become(LoopReturns(Append(loops, LoopFrame(kind, n)),
                                     success(RTResult, "null"), <<>>), "loop")
             ELSE Become(Running(Append(loops, LoopFrame(kind, n)), <<>>), "loop")
    /\ UNCHANGED <<shape, total, lastReturn>>

\* A statement that comes back with a value; in the example programs it is
\* total = total + x, x the current element.
AddStmt ==
    /\ InLoopBody
    /\ Len(loops) > 1
    /\ shape = "sum" => loops[Len(loops)].pos = 0
    /\ shape = "break_at_2" =>
          loops[Len(loops)].pos = 0 /\ ExampleList[loops[Len(loops)].i] # 2
    /\ total' = IF shape = "any" THEN total
                ELSE total + ExampleList[loops[Len(loops)].i]
    /\ Become(StatementDone(loops, success(RTResult, "value"), <<>>), "add")
    /\ UNCHANGED <<shape, lastReturn>>

\* CONTINUE, BREAK, RETURN v, and a statement that fails.
SignalStmt ==
    /\ InLoopBody
    /\ \E sig \in {"continue", "break", "return", "error"} :
          /\ sig \in {"continue", "break"} => Len(loops) > 1
          /\ shape # "any" =>
                /\ shape = "break_at_2" /\ sig = "break" /\ Len(loops) = 2
                /\ loops[2].pos = 0 /\ ExampleList[loops[2].i] = 2
          /\ Become(StatementDone(loops,
                       CASE sig = "continue" -> success_continue(RTResult)
                         [] sig = "break" -> success_break(RTResult)
                         [] sig = "return" -> success_return(RTResult, "v")
                         [] sig = "error" -> failure(RTResult, RTError("error", "none")),
                       <<>>), sig)
    /\ UNCHANGED <<shape, total, lastReturn>>

\* The body of the loop, or of the enclosing call, has no more statements.
BodyEnds ==
    /\ body_result = <<>>
    /\ loops # <<>>
    /\ shape # "any" => loops[Len(loops)].pos = 1
    /\ Become(ListEnds(loops), "end")
    /\ UNCHANGED <<shape, total, lastReturn>>

\* What the visit of a function's body can come back with.
CalleeBodies ==
    { success(RTResult, "last"), success_return(RTResult, "v"),
      success_return(success(RTResult, "last"), "v"),
      success_break(RTResult), success_continue(RTResult),
      failure(RTResult, RTError("error", "none")) }

\* Mutant of execute_result: the body's result is handed on as it is.
execute_result_BodyAsIs(value_result) == value_result

\* Function.execute / BoundMethod.execute from the return of the body's
\* visit.
execute_result(value_result) ==
    IF value_result.error # NoError THEN value_result
    ELSE IF value_result.should_return
    THEN success(RTResult, value_result.return_value)
    ELSE success(RTResult, IF value_result.value # "none"
                          THEN value_result.value ELSE "null")

\* visit_CallNode from the return of execute.
visit_CallNode(executed) ==
    LET r == register(RTResult, executed)
    IN  IF r.error # NoError THEN r ELSE success(r, executed.value)

NoReturn == [body |-> RTResult, produced |-> RTResult]

\* A call f() as a statement of the running body.
CallStmt ==
    /\ InLoopBody
    /\ shape = "any"
    /\ \E b \in CalleeBodies :
          LET produced == visit_CallNode(execute_result(b))
          IN  /\ Become(StatementDone(loops, produced, <<>>), "call")
              /\ lastReturn' = [body |-> b, produced |-> produced]
    /\ UNCHANGED <<shape, total>>

Flagless(r) == ~r.should_break /\ ~r.should_continue

C16_CallResult ==
    [][ (lastSig' = "call" /\ lastReturn'.body.error = NoError) =>
            LET b == lastReturn'.body
                p == lastReturn'.produced
            IN  /\ p.value = IF b.should_return THEN b.return_value
                              ELSE IF b.value # "none" THEN b.value
                              ELSE "null"
                /\ p.error = NoError
                /\ ~p.should_return
                /\ Flagless(p)
                /\ body_result' = <<>>
                /\ loop_outs' = <<>>
                /\ loops' = [loops EXCEPT ![Len(loops)].pos = @ + 1]
      ]_vars

\* A callee whose body came back with a break signal was called in the
\* second iteration of a loop, and the loop is still in that iteration.
C16_Witness ==
    /\ lastSig = "call"
    /\ lastReturn.body.should_break
    /\ lastReturn.produced.value = "null"
    /\ Len(loops) = 2
    /\ loops[2].i = 2
    /\ loops[2].pos = 1

Context(parent, fn_context, x) ==
    [parent |-> parent, fn_context |-> fn_context, x |-> x]

\* Mutant of generate_new_context: the new table's parent is the caller's.
generate_new_context_OfCaller(fn, caller) == Context(caller, fn, 0)

\* BaseFunction.generate_new_context for the function fn called from the
\* context caller.
generate_new_context_For(fn, caller) == Context(fn, fn, 0)

RECURSIVE SymbolTable_find(_, _)
\* SymbolTable.get / SymbolTable.update: the context whose table answers
\* for x, looked up from the table of context c (0: none does).
SymbolTable_find(cs, c) ==
    IF c = 0 THEN 0
    ELSE IF cs[c].x # 0 THEN c
    ELSE SymbolTable_find(cs, cs[c].parent)

NoVar == [op |-> "none", at |-> 0, found |-> 0, value |-> 0]

Current == running[Len(running)]

\* DEF f(...) {...}: a Function that holds the current context.
FunDef ==
    /\ running # <<>>
    /\ functions' = functions \cup {Current}
    /\ lastVar' = [op |-> "def", at |-> Current, found |-> 0, value |-> 0]
    /\ UNCHANGED <<contexts, running>>

\* LET x = v in the current context.
LetX ==
    /\ running # <<>>
    /\ \E v \in 1..MaxNum :
          /\ contexts' = [contexts EXCEPT ![Current].x = v]
          /\ lastVar' = [op |-> "let", at |-> Current, found |-> Current, value |-> v]
    /\ UNCHANGED <<functions, running>>

\* f(...) for a function value f, with or without a parameter named x.
CallFunction ==
    /\ running # <<>>
    /\ Len(contexts) < MaxContexts
    /\ \E fn \in functions, arg \in 0..MaxNum :
          LET new_context == generate_new_context_For(fn, Current)
          IN  /\ contexts' = Append(contexts, [new_context EXCEPT !.x = arg])
              /\ running' = Append(running, Len(contexts) + 1)
              /\ lastVar' = [op |-> "call", at |-> Current, found |-> 0, value |-> arg]
    /\ UNCHANGED functions

\* The running call returns.
ReturnFromCall ==
    /\ Len(running) > 1
    /\ running' = SubSeq(running, 1, Len(running) - 1)
    /\ lastVar' = [op |-> "return", at |-> Current, found |-> 0, value |-> 0]
    /\ UNCHANGED <<contexts, functions>>

\* x as an expression: visit_VarAccessNode.
GetX ==
    /\ running # <<>>
    /\ LET t == SymbolTable_find(contexts, Current)
       IN  lastVar' = [op |-> "get", at |-> Current, found |-> t,
                       value |-> IF t = 0 THEN 0 ELSE contexts[t].x]
    /\ UNCHANGED <<contexts, functions, running>>

\* x = v: visit_VarAssignNode without declaration.
UpdateX ==
    /\ running # <<>>
    /\ \E v \in 1..MaxNum :
          LET t == SymbolTable_find(contexts, Current)
          IN  /\ contexts' = IF t = 0 THEN contexts
                             ELSE [contexts EXCEPT ![t].x = v]
              /\ lastVar' = [op |-> "update", at |-> Current, found |-> t,
                             value |-> IF t = 0 THEN 0 ELSE v]
    /\ UNCHANGED <<functions, running>>

RECURSIVE DefinitionChain(_, _)
\* The contexts active where the function running in c was defined: c, the
\* context its function was defined in, and so on.
DefinitionChain(cs, c) ==
    IF c = 0 THEN <<>> ELSE <<c>> \o DefinitionChain(cs, cs[c].fn_context)

\* The first context of the chain that binds x (0: none).
FirstBinding(cs, chain) ==
    IF \E i \in 1..Len(chain) : cs[chain[i]].x # 0
    THEN chain[CHOOSE i \in 1..Len(chain) :
                  /\ cs[chain[i]].x # 0
                  /\ \A j \in 1..(i - 1) : cs[chain[j]].x = 0]
    ELSE 0

\* C17: a read or an update of x in a running call goes to the first
\* context that binds x among the call's own and those active where its
\* function was defined; when none of them binds x the access fails, also
\* when a caller binds x.
C17_LexicalScoping ==
    [][ LET lex == FirstBinding(contexts, DefinitionChain(contexts, Current))
        IN  /\ lastVar'.op = "get" =>
                /\ lastVar'.found = lex
                /\ lastVar'.value = IF lex = 0 THEN 0 ELSE contexts[lex].x
            /\ lastVar'.op = "update" =>
                /\ lastVar'.found = lex
                /\ \A c \in 1..Len(contexts) :
                      c # lex => contexts'[c].x = contexts[c].x
                /\ lex # 0 => contexts'[lex].x = lastVar'.value
      ]_vars

\* x is read in a call made from a call that binds x, by a function defined
\* in the program, where x is not bound: the read fails.
C17_Witness ==
    /\ lastVar.op = "get"
    /\ lastVar.found = 0
    /\ Len(running) = 3
    /\ contexts[running[2]].x # 0
    /\ contexts[running[3]].fn_context = 1

\* ------------------------------------------------------------------------
\* List values in variables and arguments (interpreter.py visit_ListNode,
\* visit_VarAccessNode, visit_VarAssignNode, visit_ListSetNode; values.py
\* populate_args, List.set_element_at)
\* ------------------------------------------------------------------------
\* Two variables of the program and the parameter of the function f.
HeapNames == {"a", "b", "p"}

NoBindings == [name \in HeapNames |-> 0]

NoSet == [op |-> "none", through |-> "none"]

\* LET name = [v, ..]: visit_ListNode makes a new List and
\* visit_VarAssignNode binds it.
ListStmt ==
    /\ Len(heap) < MaxObjects
    /\ \E name \in {"a", "b"}, elements \in [1..MaxElems -> 1..MaxNum] :
          /\ heap' = Append(heap, elements)
          /\ bound' = [bound EXCEPT ![name] = Len(heap) + 1]
          /\ lastSet' = [op |-> "list", through |-> name]

\* LET to = from: visit_VarAccessNode hands the stored value itself to
\* visit_VarAssignNode, which stores it.
VarAssignStmt ==
    /\ \E from \in {"a", "b"}, to \in {"a", "b"} :
          /\ from # to
          /\ bound[from] # 0
          /\ bound' = [bound EXCEPT ![to] = bound[from]]
          /\ lastSet' = [op |-> "assign", through |-> to]
    /\ UNCHANGED heap

\* f(from): visit_CallNode collects the value of the argument and
\* populate_args binds the parameter to it.
PassArgument ==
    /\ \E from \in {"a", "b"} :
          /\ bound[from] # 0
          /\ bound' = [bound EXCEPT !["p"] = bound[from]]
          /\ lastSet' = [op |-> "call", through |-> "p"]
    /\ UNCHANGED heap

\* name[i] = v: visit_ListSetNode, List.set_element_at.
ListSetStmt ==
    /\ \E name \in HeapNames, i \in 1..MaxElems, v \in 1..MaxNum :
          /\ bound[name] # 0
          /\ heap' = [heap EXCEPT ![bound[name]][i] = v]
          /\ lastSet' = [op |-> "set", through |-> name]
    /\ UNCHANGED bound

\* The elements seen through a variable.
Elements(h, name) == IF bound[name] = 0 THEN <<>> ELSE h[bound[name]]

\* C18: setting an element through one variable or parameter leaves the
\* elements seen through every other variable as they were.
C18_CopyOnPass ==
    [][ lastSet'.op = "set" =>
            \A other \in HeapNames \ {lastSet'.through} :
                Elements(heap', other) = Elements(heap, other) ]_vars

\* ------------------------------------------------------------------------
\* Method lookup through an instance and through SUPER (values.py
\* Class.get_attr, Class.instantiate, Super.get_attr, Super.execute;
\* interpreter.py visit_VarAccessNode)
\* ------------------------------------------------------------------------
\* CLASS A, CLASS B INHERITS A, CLASS C INHERITS A, CLASS D INHERITS B, C.
Hierarchy == {"A", "B", "C", "D"}

\* Class.mro of each, as compute_mro yields it.
Linearization(c) ==
    CASE c = "A" -> <<"A">>
      [] c = "B" -> <<"B", "A">>
      [] c = "C" -> <<"C", "A">>
      [] c = "D" -> <<"D", "B", "C", "A">>

\* The names of the methods: an ordinary method m, and the constructor,
\* which is the method named after its class.
MethodKeys == {"m", "constructor"}

NoDeclarations == [c \in Hierarchy |-> {}]

NoLookup ==
    [via |-> "none", instance |-> "none", start_class |-> "none",
     name |-> "none", cls |-> "none", bound_to |-> "none"]

\* The loops over mro[start_index..]: the first class whose methods dict
\* has the name ("none": no class has).
RECURSIVE FirstDeclaring(_, _, _)
FirstDeclaring(mro, start_index, name) ==
    IF start_index > Len(mro) THEN "none"
    ELSE IF name \in declares[mro[start_index]] THEN mro[start_index]
    ELSE FirstDeclaring(mro, start_index + 1, name)

\* Mutant of Super_start_index: the search starts at the start class.
Super_start_index_AtStartClass(mro, start_class) == IndexOf(mro, start_class)

\* start_index = mro.index(self.start_class) + 1
Super_start_index(mro, start_class) == IndexOf(mro, start_class) + 1

\* visit_GetAttrNode of m on an instance of class c without fields of that
\* name: Instance.get_attr, Class.get_attr.
LookupThroughInstance ==
    /\ \E c \in Hierarchy :
          lastLookup' =
              [via |-> "instance", instance |-> c, start_class |-> "none",
               name |-> "m", cls |-> FirstDeclaring(Linearization(c), 1, "m"),
               bound_to |-> c]
    /\ UNCHANGED declares

\* SUPER.m, or SUPER(...) for the constructor, in a method of class k that
\* runs on an instance of class c: visit_VarAccessNode makes
\* Super(instance, active_class); Super.get_attr / Super.execute resolve.
LookupThroughSuper ==
    /\ \E c \in Hierarchy, name \in MethodKeys :
       \E k \in Range(Linearization(c)) :
          /\ declares[k] # {}
          /\ lastLookup' =
                [via |-> "super", instance |-> c, start_class |-> k,
                 name |-> name,
                 cls |-> FirstDeclaring(Linearization(c),
                                        Super_start_index(Linearization(c), k),
                                        name),
                 bound_to |-> c]
    /\ UNCHANGED declares

\* C20: a lookup through an instance yields the declaration of the first
\* class of the instance's MRO that declares the name; a lookup through
\* SUPER made in a method of class K yields that of the first class after K
\* in the MRO of the receiver's class, bound to the same receiver, and
\* none when no class after K declares it.
C20_SuperResolvesAfterStartClass ==
    LET mro == Linearization(lastLookup.instance)
        from == IF lastLookup.via = "super"
                THEN IndexOf(mro, lastLookup.start_class) + 1 ELSE 1
        after == {i \in from..Len(mro) : lastLookup.name \in declares[mro[i]]}
    IN  lastLookup.via # "none" =>
            /\ lastLookup.bound_to = lastLookup.instance
            /\ IF after = {} THEN lastLookup.cls = "none"
               ELSE /\ lastLookup.cls \in Range(mro)
                    /\ IndexOf(mro, lastLookup.cls) \in after
                    /\ \A i \in after : IndexOf(mro, lastLookup.cls) <= i

\* SUPER.m in B's m on an instance of D resolves to C, which is no
\* superclass of B, though B, the start class, and D declare m as well.
C20_Witness ==
    /\ lastLookup.via = "super"
    /\ lastLookup.instance = "D"
    /\ lastLookup.start_class = "B"
    /\ lastLookup.name = "m"
    /\ lastLookup.cls = "C"
    /\ "m" \in declares["B"] \cap declares["D"] \cap declares["A"]


\* ------------------------------------------------------------------------
\* Method visibility across a class and its ancestors (visit_ClassNode)
\* ------------------------------------------------------------------------
OverridableNames == {"m", "k"}

NoMethod == "none"

NoClassDef == [name |-> "none", failed |-> FALSE]

\* vis_levels.get(visibility, 3)
vis_levels(visibility) ==
    CASE visibility = "PROTECTED" -> 2
      [] visibility = "PRIVATE" -> 1
      [] OTHER -> 3

\* The loop over class_value.mro in the method loop: the methods entry of
\* the first ancestor, the class itself skipped, whose methods dict has the
\* name (NoMethod for parent_method = None).
RECURSIVE parent_method(_, _, _)
parent_method(mro, i, method_name) ==
    IF i > Len(mro) THEN NoMethod
    ELSE IF class_methods[mro[i]][method_name] # NoMethod
    THEN class_methods[mro[i]][method_name]
    ELSE parent_method(mro, i + 1, method_name)

\* child_vis_score < parent_vis_score
child_too_restrictive(child_visibility, parent_visibility) ==
    vis_levels(child_visibility) < vis_levels(parent_visibility)

\* The method loop returns the failure for some method node of the class.
LspViolation(c, decl) ==
    \E n \in OverridableNames :
        /\ decl[n] # NoMethod
        /\ parent_method(Linearization(c), 2, n) # NoMethod
        /\ child_too_restrictive(decl[n],
                                 parent_method(Linearization(c), 2, n))

\* Interpreter.visit_ClassNode for a class of the hierarchy whose name is
\* not bound yet and whose superclasses are: decl gives the visibility of
\* each method the class body declares.  On failure the handler returns
\* before class_value.methods and the name are set.
DefineClassWithMethods ==
    \E c \in Hierarchy \ bound_classes :
    \E decl \in [OverridableNames -> Visibilities \cup {NoMethod}] :
        /\ Range(Linearization(c)) \ {c} \subseteq bound_classes
        /\ IF LspViolation(c, decl)
           THEN /\ UNCHANGED <<bound_classes, class_methods>>
                /\ lastClassDef' = [name |-> c, failed |-> TRUE]
           ELSE /\ bound_classes' = bound_classes \cup {c}
                /\ class_methods' = [class_methods EXCEPT ![c] = decl]
                /\ lastClassDef' = [name |-> c, failed |-> FALSE]

NoClassMethods == [c \in Hierarchy |-> [n \in OverridableNames |-> NoMethod]]

\* C21: every method of a defined class is at least as permissive as each
\* method of the same name that an ancestor in the class's MRO declares,
\* and a class definition that failed has left the class name unbound.
C21_OverridesNeverNarrow ==
    /\ \A c \in bound_classes : \A n \in OverridableNames :
       \A i \in 2..Len(Linearization(c)) :
           LET a == Linearization(c)[i]
           IN  (class_methods[c][n] # NoMethod /\ class_methods[a][n] # NoMethod)
                   => vis_levels(class_methods[c][n])
                          >= vis_levels(class_methods[a][n])
    /\ lastClassDef.failed => lastClassDef.name \notin bound_classes


\* ------------------------------------------------------------------------
\* Arithmetic on Numbers (values.Number)
\* ------------------------------------------------------------------------
\* A Number operand of a division: an integer value, held as a Python int
\* or as a float (0.0 is the float of value 0).
Number(value, is_float) == [value |-> value, is_float |-> is_float]

Numbers == {Number(v, f) : v \in -MaxNum..MaxNum, f \in BOOLEAN}

DivisionByZero == RTError("Division by zero", "none")

\* What an operator method does: the (result, error) pair it returns, the
\* result <<>> for None, or the host exception it raises instead.
Returns(result, error) == [value |-> result, error |-> error, raised |-> "none"]

Raises(exception) == [value |-> <<>>, error |-> NoError, raised |-> exception]

RECURSIVE Gcd(_, _)
Gcd(a, b) == IF b = 0 THEN a ELSE Gcd(b, a % b)

Magnitude(n) == IF n < 0 THEN -n ELSE n

\* A quotient as the exact fraction in lowest terms, the sign in the
\* numerator.
Quotient(a, b) ==
    LET g == Gcd(Magnitude(a), Magnitude(b))
        sgn == IF b < 0 THEN -1 ELSE 1
    IN  [num |-> sgn * (a \div g), den |-> sgn * (b \div g), is_float |-> TRUE]

Whole(n, is_float) == [num |-> n, den |-> 1, is_float |-> is_float]

\* Python's // on the values: the floor of the quotient.
FloorDiv(a, b) == IF b < 0 THEN (-a) \div (-b) ELSE a \div b

\* Number.dived_by
dived_by(self, other) ==
    IF other.value = 0 THEN Returns(<<>>, DivisionByZero)
    ELSE Returns(<<Quotient(self.value, other.value)>>, NoError)

\* Number.modded_by: Python's %, the remainder with the divisor's sign.
modded_by(self, other) ==
    IF other.value = 0 THEN Returns(<<>>, DivisionByZero)
    ELSE Returns(<<Whole(self.value
                           - other.value * FloorDiv(self.value, other.value),
                         self.is_float \/ other.is_float)>>, NoError)

\* Mutant of floordived_by: no test of the divisor, so that Python's //
\* raises on a zero divisor.
floordived_by_Unguarded(self, other) ==
    IF other.value = 0 THEN Raises("ZeroDivisionError")
    ELSE Returns(<<Whole(FloorDiv(self.value, other.value),
                         self.is_float \/ other.is_float)>>, NoError)

\* Number.floordived_by
floordived_by(self, other) ==
    IF other.value = 0 THEN Returns(<<>>, DivisionByZero)
    ELSE Returns(<<Whole(FloorDiv(self.value, other.value),
                         self.is_float \/ other.is_float)>>, NoError)

\* An operator and its operands, not evaluated yet.
Operation(op, left, right) ==
    [op |-> op, left |-> left, right |-> right, done |-> FALSE,
     out |-> Returns(<<>>, NoError)]

NoArith == Operation("none", <<>>, <<>>)

Divisions ==
    {Operation(op, <<a>>, <<b>>) :
        op \in {"DIV", "FLOORDIV", "MOD"}, a \in Numbers, b \in Numbers}

\* Interpreter.visit_BinOpNode on two Numbers for /, // and %.
DivisionOp ==
    LET op == lastArith.op
        a == lastArith.left[1]
        b == lastArith.right[1]
    IN  /\ lastArith \in Divisions
        /\ lastArith' = [lastArith EXCEPT
               !.done = TRUE,
               !.out = CASE op = "DIV" -> dived_by(a, b)
                         [] op = "FLOORDIV" -> floordived_by(a, b)
                         [] op = "MOD" -> modded_by(a, b)]

IsDivision == lastArith.done /\ lastArith.op \in {"DIV", "FLOORDIV", "MOD"}

\* C24: a / b, a // b and a % b with b equal to zero (0 or 0.0) each
\* return the division-by-zero error, no Number and no host exception, and
\* with a non-zero b none of them returns that error.
C24_DivisionByZero ==
    IsDivision =>
        IF lastArith.right[1].value = 0
        THEN lastArith.out = Returns(<<>>, DivisionByZero)
        ELSE /\ lastArith.out.error = NoError
             /\ lastArith.out.raised = "none"
             /\ Len(lastArith.out.value) = 1

\* 1 // 0.0 was evaluated.
C24_Witness ==
    /\ lastArith.done
    /\ lastArith.op = "FLOORDIV"
    /\ lastArith.left = <<Number(1, FALSE)>>
    /\ lastArith.right = <<Number(0, TRUE)>>
    /\ lastArith.out.error = DivisionByZero


\* An integer operand of a bitwise operator, of any size, as the pair of
\* its low 16 bits (lo) and the rest (hi): the integer hi * 2^16 + lo.
Half == 2^16

Wide(n) == [hi |-> n \div Half, lo |-> n % Half]

\* Python's &, | and ^ on integers of either sign (two's complement with
\* unboundedly many sign bits).
RECURSIVE IntAnd(_, _)
IntAnd(a, b) ==
    IF a = 0 \/ b = 0 THEN 0
    ELSE IF a = -1 THEN b
    ELSE IF b = -1 THEN a
    ELSE (a % 2) * (b % 2) + 2 * IntAnd(a \div 2, b \div 2)

RECURSIVE IntOr(_, _)
IntOr(a, b) ==
    IF a = 0 THEN b
    ELSE IF b = 0 THEN a
    ELSE IF a = -1 \/ b = -1 THEN -1
    ELSE (IF a % 2 = 1 \/ b % 2 = 1 THEN 1 ELSE 0)
             + 2 * IntOr(a \div 2, b \div 2)

RECURSIVE IntXor(_, _)
IntXor(a, b) ==
    IF a = 0 THEN b
    ELSE IF b = 0 THEN a
    ELSE IF a = -1 THEN -b - 1
    ELSE IF b = -1 THEN -a - 1
    ELSE ((a + b) % 2) + 2 * IntXor(a \div 2, b \div 2)

\* x << 1 and x >> 1 on a pair.
Doubled(x) == [hi |-> 2 * x.hi + (2 * x.lo) \div Half, lo |-> (2 * x.lo) % Half]

Halved(x) == [hi |-> x.hi \div 2, lo |-> x.lo \div 2 + (x.hi % 2) * (Half \div 2)]

RECURSIVE ShiftLeft(_, _)
ShiftLeft(x, n) == IF n = 0 THEN x ELSE ShiftLeft(Doubled(x), n - 1)

RECURSIVE ShiftRight(_, _)
ShiftRight(x, n) == IF n = 0 THEN x ELSE ShiftRight(Halved(x), n - 1)

\* The integer of a pair that is small enough to be a shift count.
IntOf(x) == x.hi * Half + x.lo

\* x & 0xFFFFFFFF
Masked(x) == [hi |-> x.hi % Half, lo |-> x.lo]

\* Number.bitted_and_by
bitted_and_by(self, other) ==
    Returns(<<Masked([hi |-> IntAnd(self.hi, other.hi),
                      lo |-> IntAnd(self.lo, other.lo)])>>, NoError)

\* Number.bitted_or_by
bitted_or_by(self, other) ==
    Returns(<<Masked([hi |-> IntOr(self.hi, other.hi),
                      lo |-> IntOr(self.lo, other.lo)])>>, NoError)

\* Number.bitted_xor_by
bitted_xor_by(self, other) ==
    Returns(<<Masked([hi |-> IntXor(self.hi, other.hi),
                      lo |-> IntXor(self.lo, other.lo)])>>, NoError)

\* Number.bitted_not: ~x is -x - 1.
bitted_not(self) ==
    Returns(<<Masked([hi |-> -self.hi - 1, lo |-> Half - 1 - self.lo])>>,
            NoError)

\* Number.lshifted_by: Python's << raises ValueError on a negative count,
\* which the method catches.
lshifted_by(self, other) ==
    IF IntOf(other) < 0
    THEN Returns(<<>>, RTError("Negative shift count", "none"))
    ELSE Returns(<<Masked(ShiftLeft(self, IntOf(other)))>>, NoError)

\* Number.rshifted_by: neither a mask nor a handler for the ValueError that
\* Python's >> raises on a negative count.
rshifted_by(self, other) ==
    IF IntOf(other) < 0 THEN Raises("ValueError")
    ELSE Returns(<<ShiftRight(self, IntOf(other))>>, NoError)

\* The operands tried: the small integers of either sign and integers
\* around 2^31 and 2^32.
SmallOperands == {Wide(n) : n \in -MaxNum..MaxNum}

WideOperands ==
    SmallOperands \cup
    {[hi |-> h, lo |-> l] : h \in {2^15 - 1, 2^15, Half - 1, Half, -(2^15)},
                            l \in {0, Half - 1}}

\* The bitwise operations tried: any two operands for &, | and ^, any
\* operand for ~, and for << and >> any operand by a small count of either
\* sign and a small operand by 31 and 32.
Bitwise ==
    {Operation(op, <<a>>, <<b>>) :
        op \in {"BIT_AND", "BIT_OR", "BIT_XOR"},
        a \in WideOperands, b \in WideOperands}
    \cup {Operation("BIT_NOT", <<a>>, <<>>) : a \in WideOperands}
    \cup {Operation(op, <<c[1]>>, <<c[2]>>) :
             op \in {"LSHIFT", "RSHIFT"},
             c \in (WideOperands \X SmallOperands)
                       \cup (SmallOperands \X {Wide(31), Wide(32)})}

\* Interpreter.visit_BinOpNode on two Numbers for &, | and ^.
BitwiseOp ==
    LET op == lastArith.op
        a == lastArith.left[1]
        b == lastArith.right[1]
    IN  /\ lastArith \in Bitwise
        /\ op \in {"BIT_AND", "BIT_OR", "BIT_XOR"}
        /\ lastArith' = [lastArith EXCEPT
               !.done = TRUE,
               !.out = CASE op = "BIT_AND" -> bitted_and_by(a, b)
                         [] op = "BIT_OR" -> bitted_or_by(a, b)
                         [] op = "BIT_XOR" -> bitted_xor_by(a, b)]

\* Interpreter.visit_BinOpNode on two Numbers for << and >>.
ShiftOp ==
    LET a == lastArith.left[1]
        b == lastArith.right[1]
    IN  /\ lastArith \in Bitwise
        /\ lastArith.op \in {"LSHIFT", "RSHIFT"}
        /\ lastArith' = [lastArith EXCEPT
               !.done = TRUE,
               !.out = IF lastArith.op = "LSHIFT" THEN lshifted_by(a, b)
                       ELSE rshifted_by(a, b)]

\* Interpreter.visit_UnaryOpNode on a Number for ~.
BitNotOp ==
    /\ lastArith \in Bitwise
    /\ lastArith.op = "BIT_NOT"
    /\ lastArith' = [lastArith EXCEPT !.done = TRUE,
                                      !.out = bitted_not(lastArith.left[1])]

\* C25: every bitwise operator on integer operands of either sign returns
\* a Number in 0..2^32-1, except that a shift by a negative count returns
\* an error; none raises.
C25_BitwiseMasked ==
    lastArith.done /\ lastArith.op \in {"BIT_AND", "BIT_OR", "BIT_XOR", "BIT_NOT",
                      "LSHIFT", "RSHIFT"} =>
        /\ lastArith.out.raised = "none"
        /\ IF lastArith.op \in {"LSHIFT", "RSHIFT"}
              /\ IntOf(lastArith.right[1]) < 0
           THEN lastArith.out.error # NoError /\ lastArith.out.value = <<>>
           ELSE /\ lastArith.out.error = NoError
                /\ Len(lastArith.out.value) = 1
                /\ lastArith.out.value[1].hi \in 0..(Half - 1)
                /\ lastArith.out.value[1].lo \in 0..(Half - 1)


\* ------------------------------------------------------------------------
\* Private fields of one instance declared from several classes
\* (Instance.set_attr, Instance.get_attr)
\* ------------------------------------------------------------------------
FieldNames == {"x", "k"}

\* f"_{context.active_class.name}__{name}"; None without an active class.
MangledName(active, name) ==
    IF active = NoClass THEN "None" ELSE "_" \o active \o "__" \o name

FieldKeys ==
    FieldNames \cup {MangledName(c, "x") : c \in AccessClasses \cup {NoClass}}

\* The instance, of class B, whose fields are set: no static field of its
\* class has these names.
FieldOwner == "B"

NoField == [active |-> NoClass, name |-> "none", visibility |-> "none",
            error |-> "none"]

\* Instance.set_attr on the instance's symbol table t from a frame with the
\* given active class: the table afterwards and the error returned.
set_attr(t, active, name, value, vis_arg) ==
    LET as_final == vis_arg = "FINAL"
        visibility == IF vis_arg = "FINAL" THEN "PUBLIC" ELSE vis_arg
        mangled_name == MangledName(active, name)
    IN  IF visibility # "none"
        THEN LET target_name == IF visibility = "PRIVATE" THEN mangled_name
                                ELSE name
                 t1 == ST_set(t, target_name, value, visibility, as_final)
             IN  IF Bound(t, target_name)
                 THEN [table |-> t, error |-> "already defined"]
                 ELSE IF visibility = "PRIVATE" /\ Bound(t1, name)
                 THEN IF name \in t1.finals
                      THEN [table |-> t1, error |-> "cannot shadow constant"]
                      ELSE [table |-> ST_remove(t1, name), error |-> "none"]
                 ELSE [table |-> t1, error |-> "none"]
        ELSE IF active # NoClass /\ Bound(t, mangled_name)
        THEN IF mangled_name \in t.finals
             THEN [table |-> t, error |-> "constant"]
             ELSE [table |-> ST_set(t, mangled_name, value, "PRIVATE", FALSE),
                   error |-> "none"]
        ELSE IF Bound(t, name)
        THEN LET current_vis == t.visibilities[name]
                 error == check_access(current_vis, FieldOwner, active)
             IN  IF error # "none" THEN [table |-> t, error |-> error]
                 ELSE IF name \in t.finals
                 THEN [table |-> t, error |-> "constant"]
                 ELSE [table |-> ST_set(t, name, value, current_vis, FALSE),
                       error |-> "none"]
        ELSE [table |-> ST_set(t, name, value, "PUBLIC", FALSE),
              error |-> "none"]

\* Instance.get_attr for a field name from a frame with the given active
\* class: the value read, NoValue when the access fails or no field is
\* found.
get_attr(t, active, name) ==
    IF active # NoClass /\ Bound(t, MangledName(active, name))
    THEN t.symbols[MangledName(active, name)]
    ELSE IF Bound(t, name)
            /\ check_access(t.visibilities[name], FieldOwner, active) = "none"
    THEN t.symbols[name]
    ELSE NoValue

\* visit_SetAttrNode, or visit_VisibilityStmtNode on an attribute, on the
\* instance from a method of the active class (or from outside any class):
\* any assignment or declaration of x, and plain assignments to k from
\* outside.
SetField ==
    \E c \in ((AccessClasses \cup {NoClass}) \X {"x"}
                  \X {"PUBLIC", "PRIVATE", "FINAL", "none"})
              \cup {<<NoClass, "k", "none">>} :
    \E v \in 1..MaxNum :
        LET active == c[1]
            name == c[2]
            vis_arg == c[3]
            r == set_attr(fields, active, name, Num(v), vis_arg)
        IN  /\ fields' = r.table
            /\ lastField' = [active |-> active, name |-> name,
                             visibility |-> vis_arg, error |-> r.error]

\* The step declared the active class's private field of the name, or wrote
\* to it.
OnPrivateField ==
    /\ lastField'.active # NoClass
    /\ \/ lastField'.visibility = "PRIVATE"
       \/ /\ lastField'.visibility = "none"
          /\ Bound(fields, MangledName(lastField'.active, lastField'.name))

SameField(key) ==
    /\ fields'.symbols[key] = fields.symbols[key]
    /\ fields'.visibilities[key] = fields.visibilities[key]
    /\ (key \in fields'.finals) = (key \in fields.finals)

\* C23 as stated: declaring or writing a private field from one class
\* leaves unchanged what each other class reads under that name, and every
\* other field of the instance.
C23_PrivateSlotsDisjoint ==
    [][OnPrivateField =>
          /\ \A d \in AccessClasses \ {lastField'.active} :
                Bound(fields, MangledName(d, lastField'.name))
                    => get_attr(fields', d, lastField'.name)
                           = get_attr(fields, d, lastField'.name)
          /\ \A key \in FieldKeys \ {MangledName(lastField'.active,
                                                 lastField'.name)} :
                SameField(key)]_vars


\* ------------------------------------------------------------------------
\* Structural equality of lists (List.get_comparison_eq; Dict's is the same
\* loop over the keys of self)
\* ------------------------------------------------------------------------
\* An element that is the list object o.
Ref(o) == [kind |-> "list", n |-> o]

ListElements == {Num(1), Num(2)} \cup {Ref(o) : o \in 1..MaxObjects}

\* The list objects of a program and their elements: any object may hold
\* any object, itself included.
ListHeaps ==
    {h \in [1..MaxObjects -> SeqsUpTo(ListElements, MaxElems)] :
        SumLen(h) <= MaxCells}

\* A call of get_comparison_eq(self, other, visited): i = 0 before the
\* pair is added to visited, then the index of the element compared next.
EqCall(self, other) == [self |-> self, other |-> other, i |-> 0]

EqTop == eq_stack[Len(eq_stack)]

\* The caller's frames of the running call.
EqCallers == SubSeq(eq_stack, 1, Len(eq_stack) - 1)

\* Mutant of InVisited: the pair is never found.
InVisited_Never(pair, seen) == FALSE

\* pair in visited
InVisited(pair, seen) == pair \in seen

\* No comparison nests deeper than one call for each pair of objects and
\* one more that finds its pair visited.
MaxEqDepth == MaxObjects * MaxObjects + 1

\* The head of List.get_comparison_eq, up to visited.add(pair).
EqEnter ==
    /\ eq_stack # <<>> /\ eq_ret = <<>> /\ EqTop.i = 0
    /\ LET pair == <<EqTop.self, EqTop.other>>
       IN  IF Len(cells[EqTop.self]) # Len(cells[EqTop.other])
           THEN /\ eq_ret' = <<"0">>
                /\ eq_stack' = EqCallers
                /\ UNCHANGED eq_visited
           ELSE IF InVisited(pair, eq_visited)
           THEN /\ eq_ret' = <<"1">>
                /\ eq_stack' = EqCallers
                /\ UNCHANGED eq_visited
           ELSE /\ eq_visited' = eq_visited \cup {pair}
                /\ eq_stack' = EqCallers \o <<[EqTop EXCEPT !.i = 1]>>
                /\ UNCHANGED eq_ret
    /\ UNCHANGED cells

\* One turn of the loop: elements[i].get_comparison_eq(other.elements[i],
\* visited) is called; a Number answers at once, a List is entered.
EqElement ==
    /\ eq_stack # <<>> /\ eq_ret = <<>>
    /\ EqTop.i \in 1..Len(cells[EqTop.self])
    /\ LET a == cells[EqTop.self][EqTop.i]
           b == cells[EqTop.other][EqTop.i]
       IN  IF a.kind # b.kind
           THEN eq_ret' = <<"error">> /\ UNCHANGED eq_stack
           ELSE IF a.kind = "num"
           THEN /\ eq_ret' = <<IF a.n = b.n THEN "1" ELSE "0">>
                /\ UNCHANGED eq_stack
           ELSE /\ Len(eq_stack) <= MaxEqDepth
                /\ eq_stack' = eq_stack \o <<EqCall(a.n, b.n)>>
                /\ UNCHANGED eq_ret
    /\ UNCHANGED <<cells, eq_visited>>

\* The caller takes the element's answer: an error or a false result
\* leaves the loop through the finally clause, a true one goes on.
EqResume ==
    /\ eq_stack # <<>> /\ eq_ret # <<>>
    /\ IF eq_ret[1] = "1"
       THEN /\ eq_stack' = EqCallers \o <<[EqTop EXCEPT !.i = EqTop.i + 1]>>
            /\ eq_ret' = <<>>
            /\ UNCHANGED eq_visited
       ELSE /\ eq_visited' = eq_visited \ {<<EqTop.self, EqTop.other>>}
            /\ eq_stack' = EqCallers
            /\ UNCHANGED eq_ret
    /\ UNCHANGED cells

\* The loop is over: finally removes the pair and the call returns true.
EqLoopEnd ==
    /\ eq_stack # <<>> /\ eq_ret = <<>>
    /\ EqTop.i > Len(cells[EqTop.self])
    /\ eq_visited' = eq_visited \ {<<EqTop.self, EqTop.other>>}
    /\ eq_stack' = EqCallers
    /\ eq_ret' = <<"1">>
    /\ UNCHANGED cells

\* The pairs of the calls that are inside their loops.
ActivePairs ==
    {<<eq_stack[j].self, eq_stack[j].other>> :
        j \in {k \in 1..Len(eq_stack) : eq_stack[k].i > 0}}

\* C26: a structural comparison of two lists, cyclic or not, returns, with
\* a result or an error, without nesting deeper than the pairs of objects
\* allow; the visited set holds the pairs of the calls still running and
\* no other, so that it is empty once the comparison has returned.
C26_EqualityTerminatesClean ==
    /\ <>(eq_stack = <<>> /\ eq_ret # <<>>)
    /\ [](eq_visited = ActivePairs)
    /\ [](Len(eq_stack) <= MaxEqDepth)

\* A list that holds itself was compared with another list that holds
\* itself, and the comparison returned true.
C26_Witness ==
    /\ eq_stack = <<>> /\ eq_ret = <<"1">> /\ eq_visited = {}
    /\ cells[1] = <<Ref(1)>>
    /\ cells[2] = <<Ref(2)>>


\* ------------------------------------------------------------------------
\* Increment and decrement (visit_PostOpNode, visit_UnaryOpNode)
\* ------------------------------------------------------------------------
\* The targets: a variable v, the attribute k reached through an instance
\* o of a class with a static field k, and k reached through the class.
IncTargets == {"v", "o.k", "A.k"}

NoInc == [target |-> "none", form |-> "none", op |-> "none",
          resolved |-> "none", old |-> 0, yielded |-> 0]

\* Where obj.get_attr finds k on the instance: its own field if it has
\* one, else the static field of its class.
ResolvedIn(f, target) ==
    CASE target = "v" -> "variable"
      [] target = "A.k" -> "static field"
      [] target = "o.k" -> IF Bound(f, "k") THEN "instance field"
                           ELSE "static field"

ResolvedTo(target) == ResolvedIn(fields, target)

\* The read of the target, context.symbol_table.get or obj.get_attr, when
\* the variable is c, the static field s and the instance's table f.
ReadIn(c, s, f, target) ==
    CASE ResolvedIn(f, target) = "variable" -> c
      [] ResolvedIn(f, target) = "static field" -> s
      [] ResolvedIn(f, target) = "instance field" -> f.symbols["k"].n

old_value(target) == ReadIn(counter, static_k, fields, target)

\* old_value.added_to(Number(1)) or old_value.subbed_by(Number(1))
new_value(old, op) == IF op = "PLUSPLUS" THEN old + 1 ELSE old - 1

\* The write: context.symbol_table.update for a variable, obj.set_attr for
\* an attribute, which on an instance is Instance.set_attr and on a class
\* sets the static field.
WriteBack(target, value) ==
    CASE target = "v" -> counter' = value /\ UNCHANGED <<static_k, fields>>
      [] target = "A.k" -> static_k' = value /\ UNCHANGED <<counter, fields>>
      [] target = "o.k" ->
            /\ fields' = set_attr(fields, NoClass, "k", Num(value), "none").table
            /\ UNCHANGED <<counter, static_k>>

\* visit_PostOpNode (form "post") and the increment branch of
\* visit_UnaryOpNode (form "pre") from outside any class.
IncStmt ==
    \E target \in IncTargets : \E form \in {"post", "pre"} :
    \E op \in {"PLUSPLUS", "MINUSMINUS"} :
        LET old == old_value(target)
            new == new_value(old, op)
        IN  /\ new \in -MaxNum..MaxNum
            /\ WriteBack(target, new)
            /\ lastInc' = [target |-> target, form |-> form, op |-> op,
                           resolved |-> ResolvedTo(target), old |-> old,
                           yielded |-> IF form = "post" THEN old ELSE new]
            /\ UNCHANGED lastField

\* C27: an increment or decrement writes the new Number to the location
\* the old one was read from, so that the same path then reads old + 1 (or
\* old - 1); when the read resolved to the static field, the static field
\* is what changes and the instance gets no field; the post forms yield
\* the old value and the pre forms the new one.
C27_WritesBackWhereRead ==
    [][lastInc' # lastInc =>
          LET new == new_value(lastInc'.old, lastInc'.op)
          IN  /\ ReadIn(counter', static_k', fields', lastInc'.target) = new
              /\ lastInc'.yielded
                     = IF lastInc'.form = "post" THEN lastInc'.old ELSE new
              /\ CASE lastInc'.resolved = "variable" ->
                          counter' = new /\ UNCHANGED <<static_k, fields>>
                   [] lastInc'.resolved = "static field" ->
                          static_k' = new /\ UNCHANGED <<counter, fields>>
                   [] lastInc'.resolved = "instance field" ->
                          /\ fields'.symbols["k"] = Num(new)
                          /\ UNCHANGED <<counter, static_k>>]_vars


\* ------------------------------------------------------------------------
\* Binding the loop variables of a For loop (unpack_and_set, visit_ForNode)
\* ------------------------------------------------------------------------
\* The elements iterated: a Number, and Lists of two and of three elements.
ElementKinds == {"Number", "List2", "List3"}

\* A For statement: the kinds of its elements, how many loop variables it
\* names (one or two), and whether one of them is final in the frame chain.
ForNodes ==
    [items : SeqsUpTo(ElementKinds, MaxElems), nvars : {1, 2},
     final_var : BOOLEAN]

NoFor == [items |-> <<>>, nvars |-> 1, final_var |-> FALSE]

\* The error of unpack_and_set for an element, NoError when it binds.
BindingError(nd, element) ==
    IF nd.nvars = 1
    THEN IF nd.final_var THEN RTError("constant as loop variable", "none")
         ELSE NoError
    ELSE IF element = "Number" THEN RTError("cannot unpack type", "none")
    ELSE IF element # "List2" THEN RTError("expected 2 values", "none")
    ELSE IF nd.final_var THEN RTError("constant as loop variable", "none")
    ELSE NoError

\* Interpreter.unpack_and_set: what it returns, True or the RTResult that
\* res.failure(...) returns, and res afterwards.
unpack_and_set(nd, element, r) ==
    IF BindingError(nd, element) # NoError
    THEN [returned |-> "RTResult", res |-> failure(r, BindingError(nd, element))]
    ELSE [returned |-> "True", res |-> r]

\* Python's not on what unpack_and_set returns: True is true, and so is an
\* RTResult, an object of a class with neither __bool__ nor __len__.
Not(outcome) == outcome \notin {"True", "RTResult"}

\* The results a loop body may have here: a value or an error of its own.
ForBodies == {success(RTResult, "Number"), failure(RTResult, RTError("body", "none"))}

\* One turn of the loop of visit_ForNode.
ForElement ==
    /\ ~for_done
    /\ for_pos <= Len(for_node.items)
    /\ LET u == unpack_and_set(for_node, for_node.items[for_pos], for_res)
       IN  IF Not(u.returned)
           THEN /\ for_res' = u.res
                /\ for_done' = TRUE
                /\ UNCHANGED <<for_pos, body_visits>>
           ELSE \E body \in ForBodies :
                   /\ body_visits' = Append(body_visits, for_pos)
                   /\ for_res' = register(u.res, body)
                   /\ for_done' = (for_res'.error # NoError)
                   /\ for_pos' = IF for_done' THEN for_pos ELSE for_pos + 1
    /\ UNCHANGED for_node

\* The iterator is exhausted: return res.success(Number.null).
ForEnd ==
    /\ ~for_done
    /\ for_pos > Len(for_node.items)
    /\ for_res' = success(for_res, "Number.null")
    /\ for_done' = TRUE
    /\ UNCHANGED <<for_node, for_pos, body_visits>>

\* The elements whose binding fails.
Unbindable ==
    {i \in 1..Len(for_node.items) :
        BindingError(for_node, for_node.items[i]) # NoError}

\* C28: the body of a For loop is evaluated neither for the first element
\* whose binding to the loop variables fails nor for any later one, and
\* the loop, once it has reached that element, ends with the binding's
\* error.
C28_BindingFailureSkipsBody ==
    \A i \in Unbindable :
        /\ \A j \in Range(body_visits) : j < i
        /\ (for_done /\ \A k \in Unbindable : i <= k)
               => for_res.error = BindingError(for_node, for_node.items[i])


\* ------------------------------------------------------------------------
\* List comprehensions (visit_ListCompNode; visit_DictCompNode has the same
\* loops around a key and a value expression)
\* ------------------------------------------------------------------------
\* A comprehension [output FOR x IN source IF filter] with one iteration
\* spec: the number of elements its source yields and whether it has a
\* filter.  Binding the one variable x always succeeds.
CompNodes == [n : 0..MaxElems, has_cond : BOOLEAN]

NoComp == [n |-> 0, has_cond |-> FALSE]

\* The results of a sub-node: a value, true or false, or one of two errors.
CompValues == {success(RTResult, "1"), success(RTResult, "0")}

CompErrors == {failure(RTResult, RTError(d, "none")) : d \in {"E1", "E2"}}

\* A sub-node evaluated: which, for which element, and its result.
Evaluated(sub, element, result) ==
    [sub |-> sub, element |-> element, result |-> result]

\* evaluate_loops(0) up to its loop: the source expression is visited.
CompSource ==
    /\ comp_pc = "source"
    /\ \E r \in {success(RTResult, "List")} \cup CompErrors :
          /\ comp_res' = register(comp_res, r)
          /\ comp_log' = Append(comp_log, Evaluated("source", 0, r))
          /\ comp_pc' = IF comp_res'.error # NoError THEN "return" ELSE "next"
    /\ UNCHANGED <<comp_node, comp_pos, output_list>>

\* The head of the loop: the iterator yields the next element, which is
\* bound to x, or is exhausted and evaluate_loops(0) returns.
CompIterate ==
    /\ comp_pc = "next"
    /\ IF comp_pos > comp_node.n
       THEN comp_pc' = "return" /\ UNCHANGED comp_pos
       ELSE /\ comp_pc' = IF comp_node.has_cond THEN "filter" ELSE "output"
            /\ UNCHANGED comp_pos
    /\ UNCHANGED <<comp_node, comp_res, comp_log, output_list>>

\* The filter of the element: an error returns, a false value continues
\* with the next element.
CompFilter ==
    /\ comp_pc = "filter"
    /\ \E r \in CompValues \cup CompErrors :
          /\ comp_res' = register(comp_res, r)
          /\ comp_log' = Append(comp_log, Evaluated("filter", comp_pos, r))
          /\ IF comp_res'.error # NoError
             THEN comp_pc' = "return" /\ UNCHANGED comp_pos
             ELSE IF r.value = "0"
             THEN comp_pc' = "next" /\ comp_pos' = comp_pos + 1
             ELSE comp_pc' = "output" /\ UNCHANGED comp_pos
    /\ UNCHANGED <<comp_node, output_list>>

\* evaluate_loops(1): the output expression is visited and its value
\* appended unless res has an error; the loop then goes on with the next
\* element.
CompOutput ==
    /\ comp_pc = "output"
    /\ \E r \in CompValues \cup CompErrors :
          /\ comp_res' = register(comp_res, r)
          /\ comp_log' = Append(comp_log, Evaluated("output", comp_pos, r))
          /\ output_list' = IF comp_res'.error = NoError
                            THEN Append(output_list, comp_pos)
                            ELSE output_list
    /\ comp_pc' = "next"
    /\ comp_pos' = comp_pos + 1
    /\ UNCHANGED comp_node

\* After evaluate_loops(0): res with its error, or the output list.
CompReturn ==
    /\ comp_pc = "return"
    /\ comp_res' = IF comp_res.error # NoError THEN comp_res
                   ELSE success(comp_res, "List")
    /\ comp_pc' = "done"
    /\ UNCHANGED <<comp_node, comp_pos, comp_log, output_list>>

\* The sub-evaluations that failed.
Failed == {i \in 1..Len(comp_log) : comp_log[i].result.error # NoError}

\* The elements that passed the filter (all, without a filter).
Passed ==
    {e \in 1..comp_node.n :
        comp_node.has_cond =>
            \E i \in 1..Len(comp_log) :
                /\ comp_log[i].sub = "filter" /\ comp_log[i].element = e
                /\ comp_log[i].result.value = "1"}

\* C29: once a sub-evaluation of a comprehension has failed no further
\* sub-node is evaluated, and the comprehension's result is that first
\* error; without any failure the output holds, in iteration order, the
\* results for exactly the elements that passed the filter.
C29_FirstErrorEndsComprehension ==
    /\ \A i \in Failed : i = Len(comp_log)
    /\ comp_pc = "done" =>
          IF Failed # {}
          THEN \A i \in Failed : comp_res.error = comp_log[i].result.error
          ELSE /\ comp_res.error = NoError
               /\ Range(output_list) = Passed
               /\ \A i, j \in 1..Len(output_list) :
                     i < j => output_list[i] < output_list[j]


\* ------------------------------------------------------------------------
\* The frames of loop bodies, comprehensions and try/catch blocks
\* ------------------------------------------------------------------------
BlockKinds == {"FOR", "WHILE", "COMPREHENSION", "TRY", "CATCH", "FINALLY"}

BlockNames == {"a", "b", "c"}

\* The handlers that make a Context with a SymbolTable whose parent is the
\* enclosing one: visit_ForNode for each element, visit_ListCompNode and
\* visit_DictCompNode, and visit_TryCatchNode for the catch body.  The
\* bodies of While, try and finally are visited in the enclosing context.
HasOwnContext(kind) == kind \in {"FOR", "COMPREHENSION", "CATCH"}

NoBlock == [op |-> "none", kind |-> "none"]

\* The handler starts to evaluate a block of the kind: a loop body for one
\* element or one turn, a comprehension, a try, catch or finally body.
BlockEnter ==
    /\ Len(blocks) < MaxNest
    /\ \E kind \in BlockKinds :
          /\ blocks' = Append(blocks,
                              [kind |-> kind,
                               outer |-> block_frames[Len(block_frames)]])
          /\ block_frames' = IF HasOwnContext(kind)
                             THEN Append(block_frames, {})
                             ELSE block_frames
          /\ lastBlock' = [op |-> "enter", kind |-> kind]

\* A declaration (LET, or the binding of a loop or catch variable) in the
\* context the innermost block is evaluated in: symbol_table.set.
BlockDeclare ==
    \E name \in BlockNames :
        /\ block_frames' = [block_frames EXCEPT ![Len(block_frames)] =
                               @ \cup {name}]
        /\ lastBlock' = [op |-> "declare", kind |-> "none"]
        /\ UNCHANGED blocks

\* The block returns; a Context made for it is dropped with it.
BlockLeave ==
    /\ blocks # <<>>
    /\ LET kind == blocks[Len(blocks)].kind
       IN  /\ block_frames' = IF HasOwnContext(kind)
                              THEN SubSeq(block_frames, 1, Len(block_frames) - 1)
                              ELSE block_frames
           /\ lastBlock' = [op |-> "leave", kind |-> kind]
    /\ blocks' = SubSeq(blocks, 1, Len(blocks) - 1)

\* C30: when a loop body, comprehension or try/catch block has finished,
\* the enclosing frame binds the names it bound when the block began: no
\* name declared inside the block is bound in it.
C30_BlockNamesDiscarded ==
    [][lastBlock'.op = "leave" =>
          block_frames'[Len(block_frames')] = blocks[Len(blocks)].outer]_vars

\* ------------------------------------------------------------------------
\* Specifications
\* ------------------------------------------------------------------------
MroInit ==
    /\ classes = <<>>
    /\ scope = NoScope
    /\ lastDef = NoDef
    /\ owner = "scope"
    /\ thisExplicit = FALSE
    /\ tbl = NoTable
    /\ ndefs = 0
    /\ lastStmt = NoStmt
    /\ lastCall = NoCall
    /\ frames = <<NewTable>>
    /\ lastS = NoLastS
    /\ node = NoNode
    /\ pc = "done"
    /\ try_res = RTResult
    /\ res = RTResult
    /\ catch_table = "none"
    /\ catch_res = RTResult
    /\ enclosing = NoEnclosing
    /\ visited = <<>>
    /\ fin_res = RTResult
    /\ returned = RTResult
    /\ methods = NoMethods
    /\ statics = NoStatics
    /\ inst = Instance("A")
    /\ ndecl = 0
    /\ lastA = NoAccess
    /\ program = "self"
    /\ call_stack = <<>>
    /\ lastExec = NoExec
    /\ instruction_limit = <<>>
    /\ configured = <<>>
    /\ visits = 0
    /\ handlers = <<>>
    /\ run_result = <<>>
    /\ lastVisit = NoVisit
    /\ shape = "any"
    /\ loops = <<>>
    /\ total = 0
    /\ body_result = <<>>
    /\ loop_outs = <<>>
    /\ lastSig = "none"
    /\ lastReturn = NoReturn
    /\ contexts = <<>>
    /\ functions = {}
    /\ running = <<>>
    /\ lastVar = NoVar
    /\ heap = <<>>
    /\ bound = NoBindings
    /\ lastSet = NoSet
    /\ declares = NoDeclarations
    /\ lastLookup = NoLookup
    /\ bound_classes = {}
    /\ class_methods = NoClassMethods
    /\ lastClassDef = NoClassDef
    /\ lastArith = NoArith
    /\ fields = SymbolTable(FieldKeys)
    /\ lastField = NoField
    /\ cells = <<>>
    /\ eq_stack = <<>>
    /\ eq_visited = {}
    /\ eq_ret = <<>>
    /\ counter = 0
    /\ static_k = 0
    /\ lastInc = NoInc
    /\ for_node = NoFor
    /\ for_res = RTResult
    /\ for_pos = 1
    /\ body_visits = <<>>
    /\ for_done = FALSE
    /\ comp_node = NoComp
    /\ comp_res = RTResult
    /\ comp_pc = "source"
    /\ comp_pos = 1
    /\ comp_log = <<>>
    /\ output_list = <<>>
    /\ blocks = <<>>
    /\ block_frames = <<{}>>
    /\ lastBlock = NoBlock

MroNext == DefineClass /\ UNCHANGED <<overloadVars, scopeVars, tryVars, accessVars, callVars, budgetVars, loopVars, closureVars, heapVars, superVars, overrideVars, arithVars, fieldVars, eqVars, incVars, forVars, compVars, blockVars>>

MroSpec == MroInit /\ [][MroNext]_vars

OverloadInit ==
    /\ classes = <<>>
    /\ scope = NoScope
    /\ lastDef = NoDef
    /\ owner \in {"scope", "class"}
    /\ thisExplicit \in (IF owner = "class" THEN BOOLEAN ELSE {FALSE})
    /\ tbl = NoTable
    /\ ndefs = 0
    /\ lastStmt = NoStmt
    /\ lastCall = NoCall
    /\ frames = <<NewTable>>
    /\ lastS = NoLastS
    /\ node = NoNode
    /\ pc = "done"
    /\ try_res = RTResult
    /\ res = RTResult
    /\ catch_table = "none"
    /\ catch_res = RTResult
    /\ enclosing = NoEnclosing
    /\ visited = <<>>
    /\ fin_res = RTResult
    /\ returned = RTResult
    /\ methods = NoMethods
    /\ statics = NoStatics
    /\ inst = Instance("A")
    /\ ndecl = 0
    /\ lastA = NoAccess
    /\ program = "self"
    /\ call_stack = <<>>
    /\ lastExec = NoExec
    /\ instruction_limit = <<>>
    /\ configured = <<>>
    /\ visits = 0
    /\ handlers = <<>>
    /\ run_result = <<>>
    /\ lastVisit = NoVisit
    /\ shape = "any"
    /\ loops = <<>>
    /\ total = 0
    /\ body_result = <<>>
    /\ loop_outs = <<>>
    /\ lastSig = "none"
    /\ lastReturn = NoReturn
    /\ contexts = <<>>
    /\ functions = {}
    /\ running = <<>>
    /\ lastVar = NoVar
    /\ heap = <<>>
    /\ bound = NoBindings
    /\ lastSet = NoSet
    /\ declares = NoDeclarations
    /\ lastLookup = NoLookup
    /\ bound_classes = {}
    /\ class_methods = NoClassMethods
    /\ lastClassDef = NoClassDef
    /\ lastArith = NoArith
    /\ fields = SymbolTable(FieldKeys)
    /\ lastField = NoField
    /\ cells = <<>>
    /\ eq_stack = <<>>
    /\ eq_visited = {}
    /\ eq_ret = <<>>
    /\ counter = 0
    /\ static_k = 0
    /\ lastInc = NoInc
    /\ for_node = NoFor
    /\ for_res = RTResult
    /\ for_pos = 1
    /\ body_visits = <<>>
    /\ for_done = FALSE
    /\ comp_node = NoComp
    /\ comp_res = RTResult
    /\ comp_pc = "source"
    /\ comp_pos = 1
    /\ comp_log = <<>>
    /\ output_list = <<>>
    /\ blocks = <<>>
    /\ block_frames = <<{}>>
    /\ lastBlock = NoBlock

OverloadNext ==
    \/ DefFunction /\ UNCHANGED <<classVars, scopeVars, tryVars, accessVars, callVars, budgetVars, loopVars, closureVars, heapVars, superVars, overrideVars, arithVars, fieldVars, eqVars, incVars, forVars, compVars, blockVars>>
    \/ DefMethod /\ UNCHANGED <<classVars, scopeVars, tryVars, accessVars, callVars, budgetVars, loopVars, closureVars, heapVars, superVars, overrideVars, arithVars, fieldVars, eqVars, incVars, forVars, compVars, blockVars>>
    \/ CallDirect /\ UNCHANGED <<classVars, scopeVars, tryVars, accessVars, callVars, budgetVars, loopVars, closureVars, heapVars, superVars, overrideVars, arithVars, fieldVars, eqVars, incVars, forVars, compVars, blockVars>>
    \/ CallBound /\ UNCHANGED <<classVars, scopeVars, tryVars, accessVars, callVars, budgetVars, loopVars, closureVars, heapVars, superVars, overrideVars, arithVars, fieldVars, eqVars, incVars, forVars, compVars, blockVars>>

OverloadSpec == OverloadInit /\ [][OverloadNext]_vars

ScopeInit ==
    /\ classes = <<>>
    /\ scope = NoScope
    /\ lastDef = NoDef
    /\ owner = "scope"
    /\ thisExplicit = FALSE
    /\ tbl = NoTable
    /\ ndefs = 0
    /\ lastStmt = NoStmt
    /\ lastCall = NoCall
    /\ frames = <<NewTable>>
    /\ lastS = NoLastS
    /\ node = NoNode
    /\ pc = "done"
    /\ try_res = RTResult
    /\ res = RTResult
    /\ catch_table = "none"
    /\ catch_res = RTResult
    /\ enclosing = NoEnclosing
    /\ visited = <<>>
    /\ fin_res = RTResult
    /\ returned = RTResult
    /\ methods = NoMethods
    /\ statics = NoStatics
    /\ inst = Instance("A")
    /\ ndecl = 0
    /\ lastA = NoAccess
    /\ program = "self"
    /\ call_stack = <<>>
    /\ lastExec = NoExec
    /\ instruction_limit = <<>>
    /\ configured = <<>>
    /\ visits = 0
    /\ handlers = <<>>
    /\ run_result = <<>>
    /\ lastVisit = NoVisit
    /\ shape = "any"
    /\ loops = <<>>
    /\ total = 0
    /\ body_result = <<>>
    /\ loop_outs = <<>>
    /\ lastSig = "none"
    /\ lastReturn = NoReturn
    /\ contexts = <<>>
    /\ functions = {}
    /\ running = <<>>
    /\ lastVar = NoVar
    /\ heap = <<>>
    /\ bound = NoBindings
    /\ lastSet = NoSet
    /\ declares = NoDeclarations
    /\ lastLookup = NoLookup
    /\ bound_classes = {}
    /\ class_methods = NoClassMethods
    /\ lastClassDef = NoClassDef
    /\ lastArith = NoArith
    /\ fields = SymbolTable(FieldKeys)
    /\ lastField = NoField
    /\ cells = <<>>
    /\ eq_stack = <<>>
    /\ eq_visited = {}
    /\ eq_ret = <<>>
    /\ counter = 0
    /\ static_k = 0
    /\ lastInc = NoInc
    /\ for_node = NoFor
    /\ for_res = RTResult
    /\ for_pos = 1
    /\ body_visits = <<>>
    /\ for_done = FALSE
    /\ comp_node = NoComp
    /\ comp_res = RTResult
    /\ comp_pc = "source"
    /\ comp_pos = 1
    /\ comp_log = <<>>
    /\ output_list = <<>>
    /\ blocks = <<>>
    /\ block_frames = <<{}>>
    /\ lastBlock = NoBlock

ScopeNext ==
    \/ LetStmt /\ UNCHANGED <<classVars, overloadVars, tryVars, accessVars, callVars, budgetVars, loopVars, closureVars, heapVars, superVars, overrideVars, arithVars, fieldVars, eqVars, incVars, forVars, compVars, blockVars>>
    \/ AssignStmt /\ UNCHANGED <<classVars, overloadVars, tryVars, accessVars, callVars, budgetVars, loopVars, closureVars, heapVars, superVars, overrideVars, arithVars, fieldVars, eqVars, incVars, forVars, compVars, blockVars>>
    \/ FinalStmt /\ UNCHANGED <<classVars, overloadVars, tryVars, accessVars, callVars, budgetVars, loopVars, closureVars, heapVars, superVars, overrideVars, arithVars, fieldVars, eqVars, incVars, forVars, compVars, blockVars>>
    \/ VisibilityStmt /\ UNCHANGED <<classVars, overloadVars, tryVars, accessVars, callVars, budgetVars, loopVars, closureVars, heapVars, superVars, overrideVars, arithVars, fieldVars, eqVars, incVars, forVars, compVars, blockVars>>
    \/ MultiVarAssignStmt /\ UNCHANGED <<classVars, overloadVars, tryVars, accessVars, callVars, budgetVars, loopVars, closureVars, heapVars, superVars, overrideVars, arithVars, fieldVars, eqVars, incVars, forVars, compVars, blockVars>>
    \/ IncrementStmt /\ UNCHANGED <<classVars, overloadVars, tryVars, accessVars, callVars, budgetVars, loopVars, closureVars, heapVars, superVars, overrideVars, arithVars, fieldVars, eqVars, incVars, forVars, compVars, blockVars>>
    \/ FunDefStmt /\ UNCHANGED <<classVars, overloadVars, tryVars, accessVars, callVars, budgetVars, loopVars, closureVars, heapVars, superVars, overrideVars, arithVars, fieldVars, eqVars, incVars, forVars, compVars, blockVars>>
    \/ ClassDefStmt /\ UNCHANGED <<classVars, overloadVars, tryVars, accessVars, callVars, budgetVars, loopVars, closureVars, heapVars, superVars, overrideVars, arithVars, fieldVars, eqVars, incVars, forVars, compVars, blockVars>>
    \/ EnterBlock /\ UNCHANGED <<classVars, overloadVars, tryVars, accessVars, callVars, budgetVars, loopVars, closureVars, heapVars, superVars, overrideVars, arithVars, fieldVars, eqVars, incVars, forVars, compVars, blockVars>>
    \/ LeaveBlock /\ UNCHANGED <<classVars, overloadVars, tryVars, accessVars, callVars, budgetVars, loopVars, closureVars, heapVars, superVars, overrideVars, arithVars, fieldVars, eqVars, incVars, forVars, compVars, blockVars>>

ScopeSpec == ScopeInit /\ [][ScopeNext]_vars

TryInit ==
    /\ classes = <<>>
    /\ scope = NoScope
    /\ lastDef = NoDef
    /\ owner = "scope"
    /\ thisExplicit = FALSE
    /\ tbl = NoTable
    /\ ndefs = 0
    /\ lastStmt = NoStmt
    /\ lastCall = NoCall
    /\ frames = <<NewTable>>
    /\ lastS = NoLastS
    /\ node \in TryCatchNodes
    /\ pc = "try"
    /\ try_res = RTResult
    /\ res = RTResult
    /\ catch_table = "none"
    /\ catch_res = RTResult
    /\ enclosing \in {[before |-> v, now |-> v] : v \in {"none", "outer.value"}}
    /\ visited = <<>>
    /\ fin_res = RTResult
    /\ returned = RTResult
    /\ methods = NoMethods
    /\ statics = NoStatics
    /\ inst = Instance("A")
    /\ ndecl = 0
    /\ lastA = NoAccess
    /\ program = "self"
    /\ call_stack = <<>>
    /\ lastExec = NoExec
    /\ instruction_limit = <<>>
    /\ configured = <<>>
    /\ visits = 0
    /\ handlers = <<>>
    /\ run_result = <<>>
    /\ lastVisit = NoVisit
    /\ shape = "any"
    /\ loops = <<>>
    /\ total = 0
    /\ body_result = <<>>
    /\ loop_outs = <<>>
    /\ lastSig = "none"
    /\ lastReturn = NoReturn
    /\ contexts = <<>>
    /\ functions = {}
    /\ running = <<>>
    /\ lastVar = NoVar
    /\ heap = <<>>
    /\ bound = NoBindings
    /\ lastSet = NoSet
    /\ declares = NoDeclarations
    /\ lastLookup = NoLookup
    /\ bound_classes = {}
    /\ class_methods = NoClassMethods
    /\ lastClassDef = NoClassDef
    /\ lastArith = NoArith
    /\ fields = SymbolTable(FieldKeys)
    /\ lastField = NoField
    /\ cells = <<>>
    /\ eq_stack = <<>>
    /\ eq_visited = {}
    /\ eq_ret = <<>>
    /\ counter = 0
    /\ static_k = 0
    /\ lastInc = NoInc
    /\ for_node = NoFor
    /\ for_res = RTResult
    /\ for_pos = 1
    /\ body_visits = <<>>
    /\ for_done = FALSE
    /\ comp_node = NoComp
    /\ comp_res = RTResult
    /\ comp_pc = "source"
    /\ comp_pos = 1
    /\ comp_log = <<>>
    /\ output_list = <<>>
    /\ blocks = <<>>
    /\ block_frames = <<{}>>
    /\ lastBlock = NoBlock

TryNext ==
    \/ VisitTryBody /\ UNCHANGED <<classVars, overloadVars, scopeVars, accessVars, callVars, budgetVars, loopVars, closureVars, heapVars, superVars, overrideVars, arithVars, fieldVars, eqVars, incVars, forVars, compVars, blockVars>>
    \/ VisitCatchBody /\ UNCHANGED <<classVars, overloadVars, scopeVars, accessVars, callVars, budgetVars, loopVars, closureVars, heapVars, superVars, overrideVars, arithVars, fieldVars, eqVars, incVars, forVars, compVars, blockVars>>
    \/ VisitFinallyBody /\ UNCHANGED <<classVars, overloadVars, scopeVars, accessVars, callVars, budgetVars, loopVars, closureVars, heapVars, superVars, overrideVars, arithVars, fieldVars, eqVars, incVars, forVars, compVars, blockVars>>

TrySpec == TryInit /\ [][TryNext]_vars

AccessInit ==
    /\ classes = <<>>
    /\ scope = NoScope
    /\ lastDef = NoDef
    /\ owner = "scope"
    /\ thisExplicit = FALSE
    /\ tbl = NoTable
    /\ ndefs = 0
    /\ lastStmt = NoStmt
    /\ lastCall = NoCall
    /\ frames = <<NewTable>>
    /\ lastS = NoLastS
    /\ node = NoNode
    /\ pc = "done"
    /\ try_res = RTResult
    /\ res = RTResult
    /\ catch_table = "none"
    /\ catch_res = RTResult
    /\ enclosing = NoEnclosing
    /\ visited = <<>>
    /\ fin_res = RTResult
    /\ returned = RTResult
    /\ methods = NoMethods
    /\ statics = NoStatics
    /\ inst \in {Instance(c) : c \in AccessClasses}
    /\ ndecl = 0
    /\ lastA = NoAccess
    /\ program = "self"
    /\ call_stack = <<>>
    /\ lastExec = NoExec
    /\ instruction_limit = <<>>
    /\ configured = <<>>
    /\ visits = 0
    /\ handlers = <<>>
    /\ run_result = <<>>
    /\ lastVisit = NoVisit
    /\ shape = "any"
    /\ loops = <<>>
    /\ total = 0
    /\ body_result = <<>>
    /\ loop_outs = <<>>
    /\ lastSig = "none"
    /\ lastReturn = NoReturn
    /\ contexts = <<>>
    /\ functions = {}
    /\ running = <<>>
    /\ lastVar = NoVar
    /\ heap = <<>>
    /\ bound = NoBindings
    /\ lastSet = NoSet
    /\ declares = NoDeclarations
    /\ lastLookup = NoLookup
    /\ bound_classes = {}
    /\ class_methods = NoClassMethods
    /\ lastClassDef = NoClassDef
    /\ lastArith = NoArith
    /\ fields = SymbolTable(FieldKeys)
    /\ lastField = NoField
    /\ cells = <<>>
    /\ eq_stack = <<>>
    /\ eq_visited = {}
    /\ eq_ret = <<>>
    /\ counter = 0
    /\ static_k = 0
    /\ lastInc = NoInc
    /\ for_node = NoFor
    /\ for_res = RTResult
    /\ for_pos = 1
    /\ body_visits = <<>>
    /\ for_done = FALSE
    /\ comp_node = NoComp
    /\ comp_res = RTResult
    /\ comp_pc = "source"
    /\ comp_pos = 1
    /\ comp_log = <<>>
    /\ output_list = <<>>
    /\ blocks = <<>>
    /\ block_frames = <<{}>>
    /\ lastBlock = NoBlock

AccessNext ==
    \/ DeclareMethod /\ UNCHANGED <<classVars, overloadVars, scopeVars, tryVars, callVars, budgetVars, loopVars, closureVars, heapVars, superVars, overrideVars, arithVars, fieldVars, eqVars, incVars, forVars, compVars, blockVars>>
    \/ DeclareStaticField /\ UNCHANGED <<classVars, overloadVars, scopeVars, tryVars, callVars, budgetVars, loopVars, closureVars, heapVars, superVars, overrideVars, arithVars, fieldVars, eqVars, incVars, forVars, compVars, blockVars>>
    \/ SetAttr /\ UNCHANGED <<classVars, overloadVars, scopeVars, tryVars, callVars, budgetVars, loopVars, closureVars, heapVars, superVars, overrideVars, arithVars, fieldVars, eqVars, incVars, forVars, compVars, blockVars>>
    \/ GetThroughInstance /\ UNCHANGED <<classVars, overloadVars, scopeVars, tryVars, callVars, budgetVars, loopVars, closureVars, heapVars, superVars, overrideVars, arithVars, fieldVars, eqVars, incVars, forVars, compVars, blockVars>>
    \/ GetThroughClass /\ UNCHANGED <<classVars, overloadVars, scopeVars, tryVars, callVars, budgetVars, loopVars, closureVars, heapVars, superVars, overrideVars, arithVars, fieldVars, eqVars, incVars, forVars, compVars, blockVars>>
    \/ GetThroughSuper /\ UNCHANGED <<classVars, overloadVars, scopeVars, tryVars, callVars, budgetVars, loopVars, closureVars, heapVars, superVars, overrideVars, arithVars, fieldVars, eqVars, incVars, forVars, compVars, blockVars>>

AccessSpec == AccessInit /\ [][AccessNext]_vars

CallInit ==
    /\ classes = <<>>
    /\ scope = NoScope
    /\ lastDef = NoDef
    /\ owner = "scope"
    /\ thisExplicit = FALSE
    /\ tbl = NoTable
    /\ ndefs = 0
    /\ lastStmt = NoStmt
    /\ lastCall = NoCall
    /\ frames = <<NewTable>>
    /\ lastS = NoLastS
    /\ node = NoNode
    /\ pc = "done"
    /\ try_res = RTResult
    /\ res = RTResult
    /\ catch_table = "none"
    /\ catch_res = RTResult
    /\ enclosing = NoEnclosing
    /\ visited = <<>>
    /\ fin_res = RTResult
    /\ returned = RTResult
    /\ methods = NoMethods
    /\ statics = NoStatics
    /\ inst = Instance("A")
    /\ ndecl = 0
    /\ lastA = NoAccess
    /\ program \in Programs
    /\ call_stack = <<>>
    /\ lastExec = NoExec
    /\ instruction_limit = <<>>
    /\ configured = <<>>
    /\ visits = 0
    /\ handlers = <<>>
    /\ run_result = <<>>
    /\ lastVisit = NoVisit
    /\ shape = "any"
    /\ loops = <<>>
    /\ total = 0
    /\ body_result = <<>>
    /\ loop_outs = <<>>
    /\ lastSig = "none"
    /\ lastReturn = NoReturn
    /\ contexts = <<>>
    /\ functions = {}
    /\ running = <<>>
    /\ lastVar = NoVar
    /\ heap = <<>>
    /\ bound = NoBindings
    /\ lastSet = NoSet
    /\ declares = NoDeclarations
    /\ lastLookup = NoLookup
    /\ bound_classes = {}
    /\ class_methods = NoClassMethods
    /\ lastClassDef = NoClassDef
    /\ lastArith = NoArith
    /\ fields = SymbolTable(FieldKeys)
    /\ lastField = NoField
    /\ cells = <<>>
    /\ eq_stack = <<>>
    /\ eq_visited = {}
    /\ eq_ret = <<>>
    /\ counter = 0
    /\ static_k = 0
    /\ lastInc = NoInc
    /\ for_node = NoFor
    /\ for_res = RTResult
    /\ for_pos = 1
    /\ body_visits = <<>>
    /\ for_done = FALSE
    /\ comp_node = NoComp
    /\ comp_res = RTResult
    /\ comp_pc = "source"
    /\ comp_pos = 1
    /\ comp_log = <<>>
    /\ output_list = <<>>
    /\ blocks = <<>>
    /\ block_frames = <<{}>>
    /\ lastBlock = NoBlock

CallNext ==
    \/ Call /\ UNCHANGED <<classVars, overloadVars, scopeVars, tryVars, accessVars, budgetVars, loopVars, closureVars, heapVars, superVars, overrideVars, arithVars, fieldVars, eqVars, incVars, forVars, compVars, blockVars>>
    \/ Return /\ UNCHANGED <<classVars, overloadVars, scopeVars, tryVars, accessVars, budgetVars, loopVars, closureVars, heapVars, superVars, overrideVars, arithVars, fieldVars, eqVars, incVars, forVars, compVars, blockVars>>

CallSpec == CallInit /\ [][CallNext]_vars

BudgetInit ==
    /\ classes = <<>>
    /\ scope = NoScope
    /\ lastDef = NoDef
    /\ owner = "scope"
    /\ thisExplicit = FALSE
    /\ tbl = NoTable
    /\ ndefs = 0
    /\ lastStmt = NoStmt
    /\ lastCall = NoCall
    /\ frames = <<NewTable>>
    /\ lastS = NoLastS
    /\ node = NoNode
    /\ pc = "done"
    /\ try_res = RTResult
    /\ res = RTResult
    /\ catch_table = "none"
    /\ catch_res = RTResult
    /\ enclosing = NoEnclosing
    /\ visited = <<>>
    /\ fin_res = RTResult
    /\ returned = RTResult
    /\ methods = NoMethods
    /\ statics = NoStatics
    /\ inst = Instance("A")
    /\ ndecl = 0
    /\ lastA = NoAccess
    /\ program = "self"
    /\ call_stack = <<>>
    /\ lastExec = NoExec
    /\ configured \in {<<>>} \cup {<<n>> : n \in 0..MaxBudget}
    /\ instruction_limit = configured
    /\ visits = 0
    /\ handlers = <<>>
    /\ run_result = <<>>
    /\ lastVisit = NoVisit
    /\ shape = "any"
    /\ loops = <<>>
    /\ total = 0
    /\ body_result = <<>>
    /\ loop_outs = <<>>
    /\ lastSig = "none"
    /\ lastReturn = NoReturn
    /\ contexts = <<>>
    /\ functions = {}
    /\ running = <<>>
    /\ lastVar = NoVar
    /\ heap = <<>>
    /\ bound = NoBindings
    /\ lastSet = NoSet
    /\ declares = NoDeclarations
    /\ lastLookup = NoLookup
    /\ bound_classes = {}
    /\ class_methods = NoClassMethods
    /\ lastClassDef = NoClassDef
    /\ lastArith = NoArith
    /\ fields = SymbolTable(FieldKeys)
    /\ lastField = NoField
    /\ cells = <<>>
    /\ eq_stack = <<>>
    /\ eq_visited = {}
    /\ eq_ret = <<>>
    /\ counter = 0
    /\ static_k = 0
    /\ lastInc = NoInc
    /\ for_node = NoFor
    /\ for_res = RTResult
    /\ for_pos = 1
    /\ body_visits = <<>>
    /\ for_done = FALSE
    /\ comp_node = NoComp
    /\ comp_res = RTResult
    /\ comp_pc = "source"
    /\ comp_pos = 1
    /\ comp_log = <<>>
    /\ output_list = <<>>
    /\ blocks = <<>>
    /\ block_frames = <<{}>>
    /\ lastBlock = NoBlock

BudgetNext ==
    \/ Visit /\ UNCHANGED <<classVars, overloadVars, scopeVars, tryVars, accessVars, callVars, loopVars, closureVars, heapVars, superVars, overrideVars, arithVars, fieldVars, eqVars, incVars, forVars, compVars, blockVars>>
    \/ HandlerReturns /\ UNCHANGED <<classVars, overloadVars, scopeVars, tryVars, accessVars, callVars, loopVars, closureVars, heapVars, superVars, overrideVars, arithVars, fieldVars, eqVars, incVars, forVars, compVars, blockVars>>

BudgetSpec == BudgetInit /\ [][BudgetNext]_vars

\* The interpreter is one thread that goes on stepping while the run lasts.
BudgetFairSpec == BudgetInit /\ [][BudgetNext]_vars /\ WF_vars(BudgetNext)

LoopInit ==
    /\ classes = <<>>
    /\ scope = NoScope
    /\ lastDef = NoDef
    /\ owner = "scope"
    /\ thisExplicit = FALSE
    /\ tbl = NoTable
    /\ ndefs = 0
    /\ lastStmt = NoStmt
    /\ lastCall = NoCall
    /\ frames = <<NewTable>>
    /\ lastS = NoLastS
    /\ node = NoNode
    /\ pc = "done"
    /\ try_res = RTResult
    /\ res = RTResult
    /\ catch_table = "none"
    /\ catch_res = RTResult
    /\ enclosing = NoEnclosing
    /\ visited = <<>>
    /\ fin_res = RTResult
    /\ returned = RTResult
    /\ methods = NoMethods
    /\ statics = NoStatics
    /\ inst = Instance("A")
    /\ ndecl = 0
    /\ lastA = NoAccess
    /\ program = "self"
    /\ call_stack = <<>>
    /\ lastExec = NoExec
    /\ instruction_limit = <<>>
    /\ configured = <<>>
    /\ visits = 0
    /\ handlers = <<>>
    /\ run_result = <<>>
    /\ lastVisit = NoVisit
    /\ shape \in {"any", "sum", "break_at_2"}
    /\ loops = <<BodyFrame>>
    /\ total = 0
    /\ body_result = <<>>
    /\ loop_outs = <<>>
    /\ lastSig = "none"
    /\ lastReturn = NoReturn
    /\ contexts = <<>>
    /\ functions = {}
    /\ running = <<>>
    /\ lastVar = NoVar
    /\ heap = <<>>
    /\ bound = NoBindings
    /\ lastSet = NoSet
    /\ declares = NoDeclarations
    /\ lastLookup = NoLookup
    /\ bound_classes = {}
    /\ class_methods = NoClassMethods
    /\ lastClassDef = NoClassDef
    /\ lastArith = NoArith
    /\ fields = SymbolTable(FieldKeys)
    /\ lastField = NoField
    /\ cells = <<>>
    /\ eq_stack = <<>>
    /\ eq_visited = {}
    /\ eq_ret = <<>>
    /\ counter = 0
    /\ static_k = 0
    /\ lastInc = NoInc
    /\ for_node = NoFor
    /\ for_res = RTResult
    /\ for_pos = 1
    /\ body_visits = <<>>
    /\ for_done = FALSE
    /\ comp_node = NoComp
    /\ comp_res = RTResult
    /\ comp_pc = "source"
    /\ comp_pos = 1
    /\ comp_log = <<>>
    /\ output_list = <<>>
    /\ blocks = <<>>
    /\ block_frames = <<{}>>
    /\ lastBlock = NoBlock

LoopNext ==
    \/ LoopStmt /\ UNCHANGED <<classVars, overloadVars, scopeVars, tryVars, accessVars, callVars, budgetVars, closureVars, heapVars, superVars, overrideVars, arithVars, fieldVars, eqVars, incVars, forVars, compVars, blockVars>>
    \/ AddStmt /\ UNCHANGED <<classVars, overloadVars, scopeVars, tryVars, accessVars, callVars, budgetVars, closureVars, heapVars, superVars, overrideVars, arithVars, fieldVars, eqVars, incVars, forVars, compVars, blockVars>>
    \/ SignalStmt /\ UNCHANGED <<classVars, overloadVars, scopeVars, tryVars, accessVars, callVars, budgetVars, closureVars, heapVars, superVars, overrideVars, arithVars, fieldVars, eqVars, incVars, forVars, compVars, blockVars>>
    \/ CallStmt /\ UNCHANGED <<classVars, overloadVars, scopeVars, tryVars, accessVars, callVars, budgetVars, closureVars, heapVars, superVars, overrideVars, arithVars, fieldVars, eqVars, incVars, forVars, compVars, blockVars>>
    \/ BodyEnds /\ UNCHANGED <<classVars, overloadVars, scopeVars, tryVars, accessVars, callVars, budgetVars, closureVars, heapVars, superVars, overrideVars, arithVars, fieldVars, eqVars, incVars, forVars, compVars, blockVars>>

LoopSpec == LoopInit /\ [][LoopNext]_vars

ClosureInit ==
    /\ classes = <<>>
    /\ scope = NoScope
    /\ lastDef = NoDef
    /\ owner = "scope"
    /\ thisExplicit = FALSE
    /\ tbl = NoTable
    /\ ndefs = 0
    /\ lastStmt = NoStmt
    /\ lastCall = NoCall
    /\ frames = <<NewTable>>
    /\ lastS = NoLastS
    /\ node = NoNode
    /\ pc = "done"
    /\ try_res = RTResult
    /\ res = RTResult
    /\ catch_table = "none"
    /\ catch_res = RTResult
    /\ enclosing = NoEnclosing
    /\ visited = <<>>
    /\ fin_res = RTResult
    /\ returned = RTResult
    /\ methods = NoMethods
    /\ statics = NoStatics
    /\ inst = Instance("A")
    /\ ndecl = 0
    /\ lastA = NoAccess
    /\ program = "self"
    /\ call_stack = <<>>
    /\ lastExec = NoExec
    /\ instruction_limit = <<>>
    /\ configured = <<>>
    /\ visits = 0
    /\ handlers = <<>>
    /\ run_result = <<>>
    /\ lastVisit = NoVisit
    /\ shape = "any"
    /\ loops = <<>>
    /\ total = 0
    /\ body_result = <<>>
    /\ loop_outs = <<>>
    /\ lastSig = "none"
    /\ lastReturn = NoReturn
    /\ contexts = <<Context(0, 0, 0)>>
    /\ functions = {}
    /\ running = <<1>>
    /\ lastVar = NoVar
    /\ heap = <<>>
    /\ bound = NoBindings
    /\ lastSet = NoSet
    /\ declares = NoDeclarations
    /\ lastLookup = NoLookup
    /\ bound_classes = {}
    /\ class_methods = NoClassMethods
    /\ lastClassDef = NoClassDef
    /\ lastArith = NoArith
    /\ fields = SymbolTable(FieldKeys)
    /\ lastField = NoField
    /\ cells = <<>>
    /\ eq_stack = <<>>
    /\ eq_visited = {}
    /\ eq_ret = <<>>
    /\ counter = 0
    /\ static_k = 0
    /\ lastInc = NoInc
    /\ for_node = NoFor
    /\ for_res = RTResult
    /\ for_pos = 1
    /\ body_visits = <<>>
    /\ for_done = FALSE
    /\ comp_node = NoComp
    /\ comp_res = RTResult
    /\ comp_pc = "source"
    /\ comp_pos = 1
    /\ comp_log = <<>>
    /\ output_list = <<>>
    /\ blocks = <<>>
    /\ block_frames = <<{}>>
    /\ lastBlock = NoBlock

ClosureNext ==
    \/ FunDef /\ UNCHANGED <<classVars, overloadVars, scopeVars, tryVars, accessVars, callVars, budgetVars, loopVars, heapVars, superVars, overrideVars, arithVars, fieldVars, eqVars, incVars, forVars, compVars, blockVars>>
    \/ LetX /\ UNCHANGED <<classVars, overloadVars, scopeVars, tryVars, accessVars, callVars, budgetVars, loopVars, heapVars, superVars, overrideVars, arithVars, fieldVars, eqVars, incVars, forVars, compVars, blockVars>>
    \/ CallFunction /\ UNCHANGED <<classVars, overloadVars, scopeVars, tryVars, accessVars, callVars, budgetVars, loopVars, heapVars, superVars, overrideVars, arithVars, fieldVars, eqVars, incVars, forVars, compVars, blockVars>>
    \/ ReturnFromCall /\ UNCHANGED <<classVars, overloadVars, scopeVars, tryVars, accessVars, callVars, budgetVars, loopVars, heapVars, superVars, overrideVars, arithVars, fieldVars, eqVars, incVars, forVars, compVars, blockVars>>
    \/ GetX /\ UNCHANGED <<classVars, overloadVars, scopeVars, tryVars, accessVars, callVars, budgetVars, loopVars, heapVars, superVars, overrideVars, arithVars, fieldVars, eqVars, incVars, forVars, compVars, blockVars>>
    \/ UpdateX /\ UNCHANGED <<classVars, overloadVars, scopeVars, tryVars, accessVars, callVars, budgetVars, loopVars, heapVars, superVars, overrideVars, arithVars, fieldVars, eqVars, incVars, forVars, compVars, blockVars>>

ClosureSpec == ClosureInit /\ [][ClosureNext]_vars

HeapInit ==
    /\ classes = <<>>
    /\ scope = NoScope
    /\ lastDef = NoDef
    /\ owner = "scope"
    /\ thisExplicit = FALSE
    /\ tbl = NoTable
    /\ ndefs = 0
    /\ lastStmt = NoStmt
    /\ lastCall = NoCall
    /\ frames = <<NewTable>>
    /\ lastS = NoLastS
    /\ node = NoNode
    /\ pc = "done"
    /\ try_res = RTResult
    /\ res = RTResult
    /\ catch_table = "none"
    /\ catch_res = RTResult
    /\ enclosing = NoEnclosing
    /\ visited = <<>>
    /\ fin_res = RTResult
    /\ returned = RTResult
    /\ methods = NoMethods
    /\ statics = NoStatics
    /\ inst = Instance("A")
    /\ ndecl = 0
    /\ lastA = NoAccess
    /\ program = "self"
    /\ call_stack = <<>>
    /\ lastExec = NoExec
    /\ instruction_limit = <<>>
    /\ configured = <<>>
    /\ visits = 0
    /\ handlers = <<>>
    /\ run_result = <<>>
    /\ lastVisit = NoVisit
    /\ shape = "any"
    /\ loops = <<>>
    /\ total = 0
    /\ body_result = <<>>
    /\ loop_outs = <<>>
    /\ lastSig = "none"
    /\ lastReturn = NoReturn
    /\ contexts = <<>>
    /\ functions = {}
    /\ running = <<>>
    /\ lastVar = NoVar
    /\ heap = <<>>
    /\ bound = NoBindings
    /\ lastSet = NoSet
    /\ declares = NoDeclarations
    /\ lastLookup = NoLookup
    /\ bound_classes = {}
    /\ class_methods = NoClassMethods
    /\ lastClassDef = NoClassDef
    /\ lastArith = NoArith
    /\ fields = SymbolTable(FieldKeys)
    /\ lastField = NoField
    /\ cells = <<>>
    /\ eq_stack = <<>>
    /\ eq_visited = {}
    /\ eq_ret = <<>>
    /\ counter = 0
    /\ static_k = 0
    /\ lastInc = NoInc
    /\ for_node = NoFor
    /\ for_res = RTResult
    /\ for_pos = 1
    /\ body_visits = <<>>
    /\ for_done = FALSE
    /\ comp_node = NoComp
    /\ comp_res = RTResult
    /\ comp_pc = "source"
    /\ comp_pos = 1
    /\ comp_log = <<>>
    /\ output_list = <<>>
    /\ blocks = <<>>
    /\ block_frames = <<{}>>
    /\ lastBlock = NoBlock

HeapNext ==
    \/ ListStmt /\ UNCHANGED <<classVars, overloadVars, scopeVars, tryVars, accessVars, callVars, budgetVars, loopVars, closureVars, superVars, overrideVars, arithVars, fieldVars, eqVars, incVars, forVars, compVars, blockVars>>
    \/ VarAssignStmt /\ UNCHANGED <<classVars, overloadVars, scopeVars, tryVars, accessVars, callVars, budgetVars, loopVars, closureVars, superVars, overrideVars, arithVars, fieldVars, eqVars, incVars, forVars, compVars, blockVars>>
    \/ PassArgument /\ UNCHANGED <<classVars, overloadVars, scopeVars, tryVars, accessVars, callVars, budgetVars, loopVars, closureVars, superVars, overrideVars, arithVars, fieldVars, eqVars, incVars, forVars, compVars, blockVars>>
    \/ ListSetStmt /\ UNCHANGED <<classVars, overloadVars, scopeVars, tryVars, accessVars, callVars, budgetVars, loopVars, closureVars, superVars, overrideVars, arithVars, fieldVars, eqVars, incVars, forVars, compVars, blockVars>>

HeapSpec == HeapInit /\ [][HeapNext]_vars

SuperInit ==
    /\ classes = <<>>
    /\ scope = NoScope
    /\ lastDef = NoDef
    /\ owner = "scope"
    /\ thisExplicit = FALSE
    /\ tbl = NoTable
    /\ ndefs = 0
    /\ lastStmt = NoStmt
    /\ lastCall = NoCall
    /\ frames = <<NewTable>>
    /\ lastS = NoLastS
    /\ node = NoNode
    /\ pc = "done"
    /\ try_res = RTResult
    /\ res = RTResult
    /\ catch_table = "none"
    /\ catch_res = RTResult
    /\ enclosing = NoEnclosing
    /\ visited = <<>>
    /\ fin_res = RTResult
    /\ returned = RTResult
    /\ methods = NoMethods
    /\ statics = NoStatics
    /\ inst = Instance("A")
    /\ ndecl = 0
    /\ lastA = NoAccess
    /\ program = "self"
    /\ call_stack = <<>>
    /\ lastExec = NoExec
    /\ instruction_limit = <<>>
    /\ configured = <<>>
    /\ visits = 0
    /\ handlers = <<>>
    /\ run_result = <<>>
    /\ lastVisit = NoVisit
    /\ shape = "any"
    /\ loops = <<>>
    /\ total = 0
    /\ body_result = <<>>
    /\ loop_outs = <<>>
    /\ lastSig = "none"
    /\ lastReturn = NoReturn
    /\ contexts = <<>>
    /\ functions = {}
    /\ running = <<>>
    /\ lastVar = NoVar
    /\ heap = <<>>
    /\ bound = NoBindings
    /\ lastSet = NoSet
    /\ declares \in [Hierarchy -> SUBSET MethodKeys]
    /\ lastLookup = NoLookup
    /\ bound_classes = {}
    /\ class_methods = NoClassMethods
    /\ lastClassDef = NoClassDef
    /\ lastArith = NoArith
    /\ fields = SymbolTable(FieldKeys)
    /\ lastField = NoField
    /\ cells = <<>>
    /\ eq_stack = <<>>
    /\ eq_visited = {}
    /\ eq_ret = <<>>
    /\ counter = 0
    /\ static_k = 0
    /\ lastInc = NoInc
    /\ for_node = NoFor
    /\ for_res = RTResult
    /\ for_pos = 1
    /\ body_visits = <<>>
    /\ for_done = FALSE
    /\ comp_node = NoComp
    /\ comp_res = RTResult
    /\ comp_pc = "source"
    /\ comp_pos = 1
    /\ comp_log = <<>>
    /\ output_list = <<>>
    /\ blocks = <<>>
    /\ block_frames = <<{}>>
    /\ lastBlock = NoBlock

SuperNext ==
    \/ LookupThroughInstance /\ UNCHANGED <<classVars, overloadVars, scopeVars, tryVars, accessVars, callVars, budgetVars, loopVars, closureVars, heapVars, overrideVars, arithVars, fieldVars, eqVars, incVars, forVars, compVars, blockVars>>
    \/ LookupThroughSuper /\ UNCHANGED <<classVars, overloadVars, scopeVars, tryVars, accessVars, callVars, budgetVars, loopVars, closureVars, heapVars, overrideVars, arithVars, fieldVars, eqVars, incVars, forVars, compVars, blockVars>>

SuperSpec == SuperInit /\ [][SuperNext]_vars

OverrideInit ==
    /\ classes = <<>>
    /\ scope = NoScope
    /\ lastDef = NoDef
    /\ owner = "scope"
    /\ thisExplicit = FALSE
    /\ tbl = NoTable
    /\ ndefs = 0
    /\ lastStmt = NoStmt
    /\ lastCall = NoCall
    /\ frames = <<NewTable>>
    /\ lastS = NoLastS
    /\ node = NoNode
    /\ pc = "done"
    /\ try_res = RTResult
    /\ res = RTResult
    /\ catch_table = "none"
    /\ catch_res = RTResult
    /\ enclosing = NoEnclosing
    /\ visited = <<>>
    /\ fin_res = RTResult
    /\ returned = RTResult
    /\ methods = NoMethods
    /\ statics = NoStatics
    /\ inst = Instance("A")
    /\ ndecl = 0
    /\ lastA = NoAccess
    /\ program = "self"
    /\ call_stack = <<>>
    /\ lastExec = NoExec
    /\ instruction_limit = <<>>
    /\ configured = <<>>
    /\ visits = 0
    /\ handlers = <<>>
    /\ run_result = <<>>
    /\ lastVisit = NoVisit
    /\ shape = "any"
    /\ loops = <<>>
    /\ total = 0
    /\ body_result = <<>>
    /\ loop_outs = <<>>
    /\ lastSig = "none"
    /\ lastReturn = NoReturn
    /\ contexts = <<>>
    /\ functions = {}
    /\ running = <<>>
    /\ lastVar = NoVar
    /\ heap = <<>>
    /\ bound = NoBindings
    /\ lastSet = NoSet
    /\ declares = NoDeclarations
    /\ lastLookup = NoLookup
    /\ bound_classes = {}
    /\ class_methods = NoClassMethods
    /\ lastClassDef = NoClassDef
    /\ lastArith = NoArith
    /\ fields = SymbolTable(FieldKeys)
    /\ lastField = NoField
    /\ cells = <<>>
    /\ eq_stack = <<>>
    /\ eq_visited = {}
    /\ eq_ret = <<>>
    /\ counter = 0
    /\ static_k = 0
    /\ lastInc = NoInc
    /\ for_node = NoFor
    /\ for_res = RTResult
    /\ for_pos = 1
    /\ body_visits = <<>>
    /\ for_done = FALSE
    /\ comp_node = NoComp
    /\ comp_res = RTResult
    /\ comp_pc = "source"
    /\ comp_pos = 1
    /\ comp_log = <<>>
    /\ output_list = <<>>
    /\ blocks = <<>>
    /\ block_frames = <<{}>>
    /\ lastBlock = NoBlock

OverrideNext ==
    \/ DefineClassWithMethods /\ UNCHANGED <<classVars, overloadVars, scopeVars, tryVars, accessVars, callVars, budgetVars, loopVars, closureVars, heapVars, superVars, arithVars, fieldVars, eqVars, incVars, forVars, compVars, blockVars>>

OverrideSpec == OverrideInit /\ [][OverrideNext]_vars

ArithInit ==
    /\ classes = <<>>
    /\ scope = NoScope
    /\ lastDef = NoDef
    /\ owner = "scope"
    /\ thisExplicit = FALSE
    /\ tbl = NoTable
    /\ ndefs = 0
    /\ lastStmt = NoStmt
    /\ lastCall = NoCall
    /\ frames = <<NewTable>>
    /\ lastS = NoLastS
    /\ node = NoNode
    /\ pc = "done"
    /\ try_res = RTResult
    /\ res = RTResult
    /\ catch_table = "none"
    /\ catch_res = RTResult
    /\ enclosing = NoEnclosing
    /\ visited = <<>>
    /\ fin_res = RTResult
    /\ returned = RTResult
    /\ methods = NoMethods
    /\ statics = NoStatics
    /\ inst = Instance("A")
    /\ ndecl = 0
    /\ lastA = NoAccess
    /\ program = "self"
    /\ call_stack = <<>>
    /\ lastExec = NoExec
    /\ instruction_limit = <<>>
    /\ configured = <<>>
    /\ visits = 0
    /\ handlers = <<>>
    /\ run_result = <<>>
    /\ lastVisit = NoVisit
    /\ shape = "any"
    /\ loops = <<>>
    /\ total = 0
    /\ body_result = <<>>
    /\ loop_outs = <<>>
    /\ lastSig = "none"
    /\ lastReturn = NoReturn
    /\ contexts = <<>>
    /\ functions = {}
    /\ running = <<>>
    /\ lastVar = NoVar
    /\ heap = <<>>
    /\ bound = NoBindings
    /\ lastSet = NoSet
    /\ declares = NoDeclarations
    /\ lastLookup = NoLookup
    /\ bound_classes = {}
    /\ class_methods = NoClassMethods
    /\ lastClassDef = NoClassDef
    /\ lastArith \in Divisions \cup Bitwise
    /\ fields = SymbolTable(FieldKeys)
    /\ lastField = NoField
    /\ cells = <<>>
    /\ eq_stack = <<>>
    /\ eq_visited = {}
    /\ eq_ret = <<>>
    /\ counter = 0
    /\ static_k = 0
    /\ lastInc = NoInc
    /\ for_node = NoFor
    /\ for_res = RTResult
    /\ for_pos = 1
    /\ body_visits = <<>>
    /\ for_done = FALSE
    /\ comp_node = NoComp
    /\ comp_res = RTResult
    /\ comp_pc = "source"
    /\ comp_pos = 1
    /\ comp_log = <<>>
    /\ output_list = <<>>
    /\ blocks = <<>>
    /\ block_frames = <<{}>>
    /\ lastBlock = NoBlock

ArithNext ==
    \/ DivisionOp /\ UNCHANGED <<classVars, overloadVars, scopeVars, tryVars, accessVars, callVars, budgetVars, loopVars, closureVars, heapVars, superVars, overrideVars, fieldVars, eqVars, incVars, forVars, compVars, blockVars>>
    \/ BitwiseOp /\ UNCHANGED <<classVars, overloadVars, scopeVars, tryVars, accessVars, callVars, budgetVars, loopVars, closureVars, heapVars, superVars, overrideVars, fieldVars, eqVars, incVars, forVars, compVars, blockVars>>
    \/ ShiftOp /\ UNCHANGED <<classVars, overloadVars, scopeVars, tryVars, accessVars, callVars, budgetVars, loopVars, closureVars, heapVars, superVars, overrideVars, fieldVars, eqVars, incVars, forVars, compVars, blockVars>>
    \/ BitNotOp /\ UNCHANGED <<classVars, overloadVars, scopeVars, tryVars, accessVars, callVars, budgetVars, loopVars, closureVars, heapVars, superVars, overrideVars, fieldVars, eqVars, incVars, forVars, compVars, blockVars>>

ArithSpec == ArithInit /\ [][ArithNext]_vars

FieldInit ==
    /\ classes = <<>>
    /\ scope = NoScope
    /\ lastDef = NoDef
    /\ owner = "scope"
    /\ thisExplicit = FALSE
    /\ tbl = NoTable
    /\ ndefs = 0
    /\ lastStmt = NoStmt
    /\ lastCall = NoCall
    /\ frames = <<NewTable>>
    /\ lastS = NoLastS
    /\ node = NoNode
    /\ pc = "done"
    /\ try_res = RTResult
    /\ res = RTResult
    /\ catch_table = "none"
    /\ catch_res = RTResult
    /\ enclosing = NoEnclosing
    /\ visited = <<>>
    /\ fin_res = RTResult
    /\ returned = RTResult
    /\ methods = NoMethods
    /\ statics = NoStatics
    /\ inst = Instance("A")
    /\ ndecl = 0
    /\ lastA = NoAccess
    /\ program = "self"
    /\ call_stack = <<>>
    /\ lastExec = NoExec
    /\ instruction_limit = <<>>
    /\ configured = <<>>
    /\ visits = 0
    /\ handlers = <<>>
    /\ run_result = <<>>
    /\ lastVisit = NoVisit
    /\ shape = "any"
    /\ loops = <<>>
    /\ total = 0
    /\ body_result = <<>>
    /\ loop_outs = <<>>
    /\ lastSig = "none"
    /\ lastReturn = NoReturn
    /\ contexts = <<>>
    /\ functions = {}
    /\ running = <<>>
    /\ lastVar = NoVar
    /\ heap = <<>>
    /\ bound = NoBindings
    /\ lastSet = NoSet
    /\ declares = NoDeclarations
    /\ lastLookup = NoLookup
    /\ bound_classes = {}
    /\ class_methods = NoClassMethods
    /\ lastClassDef = NoClassDef
    /\ lastArith = NoArith
    /\ fields = SymbolTable(FieldKeys)
    /\ lastField = NoField
    /\ cells = <<>>
    /\ eq_stack = <<>>
    /\ eq_visited = {}
    /\ eq_ret = <<>>
    /\ counter = 0
    /\ static_k = 0
    /\ lastInc = NoInc
    /\ for_node = NoFor
    /\ for_res = RTResult
    /\ for_pos = 1
    /\ body_visits = <<>>
    /\ for_done = FALSE
    /\ comp_node = NoComp
    /\ comp_res = RTResult
    /\ comp_pc = "source"
    /\ comp_pos = 1
    /\ comp_log = <<>>
    /\ output_list = <<>>
    /\ blocks = <<>>
    /\ block_frames = <<{}>>
    /\ lastBlock = NoBlock

FieldNext ==
    \/ SetField /\ UNCHANGED <<classVars, overloadVars, scopeVars, tryVars, accessVars, callVars, budgetVars, loopVars, closureVars, heapVars, superVars, overrideVars, arithVars, eqVars, incVars, forVars, compVars, blockVars>>

FieldSpec == FieldInit /\ [][FieldNext]_vars

EqInit ==
    /\ classes = <<>>
    /\ scope = NoScope
    /\ lastDef = NoDef
    /\ owner = "scope"
    /\ thisExplicit = FALSE
    /\ tbl = NoTable
    /\ ndefs = 0
    /\ lastStmt = NoStmt
    /\ lastCall = NoCall
    /\ frames = <<NewTable>>
    /\ lastS = NoLastS
    /\ node = NoNode
    /\ pc = "done"
    /\ try_res = RTResult
    /\ res = RTResult
    /\ catch_table = "none"
    /\ catch_res = RTResult
    /\ enclosing = NoEnclosing
    /\ visited = <<>>
    /\ fin_res = RTResult
    /\ returned = RTResult
    /\ methods = NoMethods
    /\ statics = NoStatics
    /\ inst = Instance("A")
    /\ ndecl = 0
    /\ lastA = NoAccess
    /\ program = "self"
    /\ call_stack = <<>>
    /\ lastExec = NoExec
    /\ instruction_limit = <<>>
    /\ configured = <<>>
    /\ visits = 0
    /\ handlers = <<>>
    /\ run_result = <<>>
    /\ lastVisit = NoVisit
    /\ shape = "any"
    /\ loops = <<>>
    /\ total = 0
    /\ body_result = <<>>
    /\ loop_outs = <<>>
    /\ lastSig = "none"
    /\ lastReturn = NoReturn
    /\ contexts = <<>>
    /\ functions = {}
    /\ running = <<>>
    /\ lastVar = NoVar
    /\ heap = <<>>
    /\ bound = NoBindings
    /\ lastSet = NoSet
    /\ declares = NoDeclarations
    /\ lastLookup = NoLookup
    /\ bound_classes = {}
    /\ class_methods = NoClassMethods
    /\ lastClassDef = NoClassDef
    /\ lastArith = NoArith
    /\ fields = SymbolTable(FieldKeys)
    /\ lastField = NoField
    /\ cells \in ListHeaps
    /\ eq_stack \in {<<EqCall(1, o)>> : o \in 1..MaxObjects}
    /\ eq_visited = {}
    /\ eq_ret = <<>>
    /\ counter = 0
    /\ static_k = 0
    /\ lastInc = NoInc
    /\ for_node = NoFor
    /\ for_res = RTResult
    /\ for_pos = 1
    /\ body_visits = <<>>
    /\ for_done = FALSE
    /\ comp_node = NoComp
    /\ comp_res = RTResult
    /\ comp_pc = "source"
    /\ comp_pos = 1
    /\ comp_log = <<>>
    /\ output_list = <<>>
    /\ blocks = <<>>
    /\ block_frames = <<{}>>
    /\ lastBlock = NoBlock

EqNext ==
    \/ EqEnter /\ UNCHANGED <<classVars, overloadVars, scopeVars, tryVars, accessVars, callVars, budgetVars, loopVars, closureVars, heapVars, superVars, overrideVars, arithVars, fieldVars, incVars, forVars, compVars, blockVars>>
    \/ EqElement /\ UNCHANGED <<classVars, overloadVars, scopeVars, tryVars, accessVars, callVars, budgetVars, loopVars, closureVars, heapVars, superVars, overrideVars, arithVars, fieldVars, incVars, forVars, compVars, blockVars>>
    \/ EqResume /\ UNCHANGED <<classVars, overloadVars, scopeVars, tryVars, accessVars, callVars, budgetVars, loopVars, closureVars, heapVars, superVars, overrideVars, arithVars, fieldVars, incVars, forVars, compVars, blockVars>>
    \/ EqLoopEnd /\ UNCHANGED <<classVars, overloadVars, scopeVars, tryVars, accessVars, callVars, budgetVars, loopVars, closureVars, heapVars, superVars, overrideVars, arithVars, fieldVars, incVars, forVars, compVars, blockVars>>

\* The comparison is one Python call that runs on until it returns.
EqFairSpec == EqInit /\ [][EqNext]_vars /\ WF_vars(EqNext)

IncInit ==
    /\ classes = <<>>
    /\ scope = NoScope
    /\ lastDef = NoDef
    /\ owner = "scope"
    /\ thisExplicit = FALSE
    /\ tbl = NoTable
    /\ ndefs = 0
    /\ lastStmt = NoStmt
    /\ lastCall = NoCall
    /\ frames = <<NewTable>>
    /\ lastS = NoLastS
    /\ node = NoNode
    /\ pc = "done"
    /\ try_res = RTResult
    /\ res = RTResult
    /\ catch_table = "none"
    /\ catch_res = RTResult
    /\ enclosing = NoEnclosing
    /\ visited = <<>>
    /\ fin_res = RTResult
    /\ returned = RTResult
    /\ methods = NoMethods
    /\ statics = NoStatics
    /\ inst = Instance("A")
    /\ ndecl = 0
    /\ lastA = NoAccess
    /\ program = "self"
    /\ call_stack = <<>>
    /\ lastExec = NoExec
    /\ instruction_limit = <<>>
    /\ configured = <<>>
    /\ visits = 0
    /\ handlers = <<>>
    /\ run_result = <<>>
    /\ lastVisit = NoVisit
    /\ shape = "any"
    /\ loops = <<>>
    /\ total = 0
    /\ body_result = <<>>
    /\ loop_outs = <<>>
    /\ lastSig = "none"
    /\ lastReturn = NoReturn
    /\ contexts = <<>>
    /\ functions = {}
    /\ running = <<>>
    /\ lastVar = NoVar
    /\ heap = <<>>
    /\ bound = NoBindings
    /\ lastSet = NoSet
    /\ declares = NoDeclarations
    /\ lastLookup = NoLookup
    /\ bound_classes = {}
    /\ class_methods = NoClassMethods
    /\ lastClassDef = NoClassDef
    /\ lastArith = NoArith
    /\ fields = SymbolTable(FieldKeys)
    /\ lastField = NoField
    /\ cells = <<>>
    /\ eq_stack = <<>>
    /\ eq_visited = {}
    /\ eq_ret = <<>>
    /\ counter = 0
    /\ static_k = 0
    /\ lastInc = NoInc
    /\ for_node = NoFor
    /\ for_res = RTResult
    /\ for_pos = 1
    /\ body_visits = <<>>
    /\ for_done = FALSE
    /\ comp_node = NoComp
    /\ comp_res = RTResult
    /\ comp_pc = "source"
    /\ comp_pos = 1
    /\ comp_log = <<>>
    /\ output_list = <<>>
    /\ blocks = <<>>
    /\ block_frames = <<{}>>
    /\ lastBlock = NoBlock

IncNext ==
    \/ IncStmt /\ UNCHANGED <<classVars, overloadVars, scopeVars, tryVars, accessVars, callVars, budgetVars, loopVars, closureVars, heapVars, superVars, overrideVars, arithVars, eqVars, forVars, compVars, blockVars>>

IncSpec == IncInit /\ [][IncNext]_vars

ForInit ==
    /\ classes = <<>>
    /\ scope = NoScope
    /\ lastDef = NoDef
    /\ owner = "scope"
    /\ thisExplicit = FALSE
    /\ tbl = NoTable
    /\ ndefs = 0
    /\ lastStmt = NoStmt
    /\ lastCall = NoCall
    /\ frames = <<NewTable>>
    /\ lastS = NoLastS
    /\ node = NoNode
    /\ pc = "done"
    /\ try_res = RTResult
    /\ res = RTResult
    /\ catch_table = "none"
    /\ catch_res = RTResult
    /\ enclosing = NoEnclosing
    /\ visited = <<>>
    /\ fin_res = RTResult
    /\ returned = RTResult
    /\ methods = NoMethods
    /\ statics = NoStatics
    /\ inst = Instance("A")
    /\ ndecl = 0
    /\ lastA = NoAccess
    /\ program = "self"
    /\ call_stack = <<>>
    /\ lastExec = NoExec
    /\ instruction_limit = <<>>
    /\ configured = <<>>
    /\ visits = 0
    /\ handlers = <<>>
    /\ run_result = <<>>
    /\ lastVisit = NoVisit
    /\ shape = "any"
    /\ loops = <<>>
    /\ total = 0
    /\ body_result = <<>>
    /\ loop_outs = <<>>
    /\ lastSig = "none"
    /\ lastReturn = NoReturn
    /\ contexts = <<>>
    /\ functions = {}
    /\ running = <<>>
    /\ lastVar = NoVar
    /\ heap = <<>>
    /\ bound = NoBindings
    /\ lastSet = NoSet
    /\ declares = NoDeclarations
    /\ lastLookup = NoLookup
    /\ bound_classes = {}
    /\ class_methods = NoClassMethods
    /\ lastClassDef = NoClassDef
    /\ lastArith = NoArith
    /\ fields = SymbolTable(FieldKeys)
    /\ lastField = NoField
    /\ cells = <<>>
    /\ eq_stack = <<>>
    /\ eq_visited = {}
    /\ eq_ret = <<>>
    /\ counter = 0
    /\ static_k = 0
    /\ lastInc = NoInc
    /\ for_node \in ForNodes
    /\ for_res = RTResult
    /\ for_pos = 1
    /\ body_visits = <<>>
    /\ for_done = FALSE
    /\ comp_node = NoComp
    /\ comp_res = RTResult
    /\ comp_pc = "source"
    /\ comp_pos = 1
    /\ comp_log = <<>>
    /\ output_list = <<>>
    /\ blocks = <<>>
    /\ block_frames = <<{}>>
    /\ lastBlock = NoBlock

ForNext ==
    \/ ForElement /\ UNCHANGED <<classVars, overloadVars, scopeVars, tryVars, accessVars, callVars, budgetVars, loopVars, closureVars, heapVars, superVars, overrideVars, arithVars, fieldVars, eqVars, incVars, compVars, blockVars>>
    \/ ForEnd /\ UNCHANGED <<classVars, overloadVars, scopeVars, tryVars, accessVars, callVars, budgetVars, loopVars, closureVars, heapVars, superVars, overrideVars, arithVars, fieldVars, eqVars, incVars, compVars, blockVars>>

ForSpec == ForInit /\ [][ForNext]_vars

CompInit ==
    /\ classes = <<>>
    /\ scope = NoScope
    /\ lastDef = NoDef
    /\ owner = "scope"
    /\ thisExplicit = FALSE
    /\ tbl = NoTable
    /\ ndefs = 0
    /\ lastStmt = NoStmt
    /\ lastCall = NoCall
    /\ frames = <<NewTable>>
    /\ lastS = NoLastS
    /\ node = NoNode
    /\ pc = "done"
    /\ try_res = RTResult
    /\ res = RTResult
    /\ catch_table = "none"
    /\ catch_res = RTResult
    /\ enclosing = NoEnclosing
    /\ visited = <<>>
    /\ fin_res = RTResult
    /\ returned = RTResult
    /\ methods = NoMethods
    /\ statics = NoStatics
    /\ inst = Instance("A")
    /\ ndecl = 0
    /\ lastA = NoAccess
    /\ program = "self"
    /\ call_stack = <<>>
    /\ lastExec = NoExec
    /\ instruction_limit = <<>>
    /\ configured = <<>>
    /\ visits = 0
    /\ handlers = <<>>
    /\ run_result = <<>>
    /\ lastVisit = NoVisit
    /\ shape = "any"
    /\ loops = <<>>
    /\ total = 0
    /\ body_result = <<>>
    /\ loop_outs = <<>>
    /\ lastSig = "none"
    /\ lastReturn = NoReturn
    /\ contexts = <<>>
    /\ functions = {}
    /\ running = <<>>
    /\ lastVar = NoVar
    /\ heap = <<>>
    /\ bound = NoBindings
    /\ lastSet = NoSet
    /\ declares = NoDeclarations
    /\ lastLookup = NoLookup
    /\ bound_classes = {}
    /\ class_methods = NoClassMethods
    /\ lastClassDef = NoClassDef
    /\ lastArith = NoArith
    /\ fields = SymbolTable(FieldKeys)
    /\ lastField = NoField
    /\ cells = <<>>
    /\ eq_stack = <<>>
    /\ eq_visited = {}
    /\ eq_ret = <<>>
    /\ counter = 0
    /\ static_k = 0
    /\ lastInc = NoInc
    /\ for_node = NoFor
    /\ for_res = RTResult
    /\ for_pos = 1
    /\ body_visits = <<>>
    /\ for_done = FALSE
    /\ comp_node \in CompNodes
    /\ comp_res = RTResult
    /\ comp_pc = "source"
    /\ comp_pos = 1
    /\ comp_log = <<>>
    /\ output_list = <<>>
    /\ blocks = <<>>
    /\ block_frames = <<{}>>
    /\ lastBlock = NoBlock

CompNext ==
    \/ CompSource /\ UNCHANGED <<classVars, overloadVars, scopeVars, tryVars, accessVars, callVars, budgetVars, loopVars, closureVars, heapVars, superVars, overrideVars, arithVars, fieldVars, eqVars, incVars, forVars, blockVars>>
    \/ CompIterate /\ UNCHANGED <<classVars, overloadVars, scopeVars, tryVars, accessVars, callVars, budgetVars, loopVars, closureVars, heapVars, superVars, overrideVars, arithVars, fieldVars, eqVars, incVars, forVars, blockVars>>
    \/ CompFilter /\ UNCHANGED <<classVars, overloadVars, scopeVars, tryVars, accessVars, callVars, budgetVars, loopVars, closureVars, heapVars, superVars, overrideVars, arithVars, fieldVars, eqVars, incVars, forVars, blockVars>>
    \/ CompOutput /\ UNCHANGED <<classVars, overloadVars, scopeVars, tryVars, accessVars, callVars, budgetVars, loopVars, closureVars, heapVars, superVars, overrideVars, arithVars, fieldVars, eqVars, incVars, forVars, blockVars>>
    \/ CompReturn /\ UNCHANGED <<classVars, overloadVars, scopeVars, tryVars, accessVars, callVars, budgetVars, loopVars, closureVars, heapVars, superVars, overrideVars, arithVars, fieldVars, eqVars, incVars, forVars, blockVars>>

CompSpec == CompInit /\ [][CompNext]_vars

BlockInit ==
    /\ classes = <<>>
    /\ scope = NoScope
    /\ lastDef = NoDef
    /\ owner = "scope"
    /\ thisExplicit = FALSE
    /\ tbl = NoTable
    /\ ndefs = 0
    /\ lastStmt = NoStmt
    /\ lastCall = NoCall
    /\ frames = <<NewTable>>
    /\ lastS = NoLastS
    /\ node = NoNode
    /\ pc = "done"
    /\ try_res = RTResult
    /\ res = RTResult
    /\ catch_table = "none"
    /\ catch_res = RTResult
    /\ enclosing = NoEnclosing
    /\ visited = <<>>
    /\ fin_res = RTResult
    /\ returned = RTResult
    /\ methods = NoMethods
    /\ statics = NoStatics
    /\ inst = Instance("A")
    /\ ndecl = 0
    /\ lastA = NoAccess
    /\ program = "self"
    /\ call_stack = <<>>
    /\ lastExec = NoExec
    /\ instruction_limit = <<>>
    /\ configured = <<>>
    /\ visits = 0
    /\ handlers = <<>>
    /\ run_result = <<>>
    /\ lastVisit = NoVisit
    /\ shape = "any"
    /\ loops = <<>>
    /\ total = 0
    /\ body_result = <<>>
    /\ loop_outs = <<>>
    /\ lastSig = "none"
    /\ lastReturn = NoReturn
    /\ contexts = <<>>
    /\ functions = {}
    /\ running = <<>>
    /\ lastVar = NoVar
    /\ heap = <<>>
    /\ bound = NoBindings
    /\ lastSet = NoSet
    /\ declares = NoDeclarations
    /\ lastLookup = NoLookup
    /\ bound_classes = {}
    /\ class_methods = NoClassMethods
    /\ lastClassDef = NoClassDef
    /\ lastArith = NoArith
    /\ fields = SymbolTable(FieldKeys)
    /\ lastField = NoField
    /\ cells = <<>>
    /\ eq_stack = <<>>
    /\ eq_visited = {}
    /\ eq_ret = <<>>
    /\ counter = 0
    /\ static_k = 0
    /\ lastInc = NoInc
    /\ for_node = NoFor
    /\ for_res = RTResult
    /\ for_pos = 1
    /\ body_visits = <<>>
    /\ for_done = FALSE
    /\ comp_node = NoComp
    /\ comp_res = RTResult
    /\ comp_pc = "source"
    /\ comp_pos = 1
    /\ comp_log = <<>>
    /\ output_list = <<>>
    /\ blocks = <<>>
    /\ block_frames = <<{}>>
    /\ lastBlock = NoBlock

BlockNext ==
    \/ BlockEnter /\ UNCHANGED <<classVars, overloadVars, scopeVars, tryVars, accessVars, callVars, budgetVars, loopVars, closureVars, heapVars, superVars, overrideVars, arithVars, fieldVars, eqVars, incVars, forVars, compVars>>
    \/ BlockDeclare /\ UNCHANGED <<classVars, overloadVars, scopeVars, tryVars, accessVars, callVars, budgetVars, loopVars, closureVars, heapVars, superVars, overrideVars, arithVars, fieldVars, eqVars, incVars, forVars, compVars>>
    \/ BlockLeave /\ UNCHANGED <<classVars, overloadVars, scopeVars, tryVars, accessVars, callVars, budgetVars, loopVars, closureVars, heapVars, superVars, overrideVars, arithVars, fieldVars, eqVars, incVars, forVars, compVars>>

BlockSpec == BlockInit /\ [][BlockNext]_vars

====
